---- MODULE Spec2Model ----
(***************************************************************************)
(* Failover decision engine of the multi-cloud tracker:                    *)
(* AdvancedFailoverManager (advanced_failover.py) with the health store    *)
(* (health_check.py / db_manager.py), the performance file                 *)
(* (performance_monitor.py) and the failover event log (db_manager.py).    *)
(*                                                                         *)
(* Scores are Python floats in the source.  Here a score is the exact      *)
(* rational  num / (den * 1000)  kept as the pair <<num, den>>, where den  *)
(* is the length of the provider's health history (1 when it is empty).    *)
(* Response times are in milliseconds, success rates in tenths of a        *)
(* percent, weights in hundredths, costs in cents, time in seconds.        *)
(***************************************************************************)
EXTENDS Integers, Sequences, FiniteSets, TLC

(* ------------------------------ configuration ------------------------- *)

\* config.py CLOUD_PROVIDERS, in dict (insertion) order
ProviderOrder == <<"aws", "azure", "gcp">>

Providers == {ProviderOrder[i] : i \in 1..Len(ProviderOrder)}

DEFAULT_PROVIDER == "aws"

\* a provider id that is not configured (an argument manual_failover accepts)
UnknownProvider == "oracle"

Targets == Providers \cup {UnknownProvider}

\* Python None for a provider-valued result
NoProvider == "None"

\* Python None in last_failover_time
NoTime == -1

\* config.py cost_per_hour, in cents
cost_per_hour == [aws |-> 75, azure |-> 80, gcp |-> 72]

\* config.py CLOUD_PROVIDERS[p]['priority']
priority == [aws |-> 1, azure |-> 2, gcp |-> 3]

\* provider_weights, in hundredths
provider_weights ==
  [aws   |-> [reliability |-> 60, performance |-> 70, cost |-> 50],
   azure |-> [reliability |-> 50, performance |-> 60, cost |-> 60],
   gcp   |-> [reliability |-> 55, performance |-> 50, cost |-> 70]]

consecutive_failures_threshold == 3

recovery_time_threshold == 60

\* update_health_history keeps the last 10 status checks
HistoryCap == 10

(* ------------------------------ bounds -------------------------------- *)

\* calls of check_and_failover by the background loop
MaxTicks == 3

\* changes of the health store
MaxProbes == 1

\* calls of simulate_disaster_scenario
MaxSims == 2

\* failover events in the log
MaxEvents == 1

\* the clock stops advancing here (seconds)
MaxNow == 60

\* seconds that pass in one step of the clock
ClockStep == 30

\* samples of a health history the functions are applied to
MaxLen == 3

\* rows in the failover event table, rows being written included
MaxLog == 3

\* iterations of the health loop and of the performance loop
MaxIterations == 2

(* ------------------------------ snapshots ----------------------------- *)

\* a provider in good shape: 0.05 s, 99.9 %
PerfGood == [rt |-> 50, sr |-> 999, cpu |-> 50, mem |-> 50]

\* a slow provider: 0.6 s, 93 %
PerfSlow == [rt |-> 600, sr |-> 930, cpu |-> 50, mem |-> 50]

\* the values simulate_disaster_scenario("performance_degradation") writes
PerfDegraded == [rt |-> 800, sr |-> 920, cpu |-> 90, mem |-> 85]

\* a provider that answers slowly but correctly: 0.8 s, 99.9 %
PerfHighLatency == [rt |-> 800, sr |-> 999, cpu |-> 50, mem |-> 50]

\* the snapshots the performance feed writes
PerfSnapshots == {PerfGood, PerfSlow, PerfHighLatency}

\* snapshots at and just past the thresholds of detect_performance_degradation
PerfBoundary ==
  {[rt |-> rt, sr |-> sr, cpu |-> cpu, mem |-> mem] :
     rt \in {500, 501}, sr \in {949, 950}, cpu \in {85, 86}, mem \in {80, 81}}

\* the performance file when the manager is constructed: every provider in
\* good shape, or one of them not
InitialPerformance ==
  {[q \in Providers |-> IF q = p THEN snapshot ELSE PerfGood] :
     p \in Providers, snapshot \in PerfSnapshots}

VARIABLES
  active_provider,      \* contents of ACTIVE_PROVIDER_FILE
  health_status,        \* the health store read by get_current_health_status()
  health_history,       \* self.health_history: provider -> sequence of 'healthy'
  performance_data,     \* contents of PERFORMANCE_DATA_FILE
  current_performance,  \* self.current_performance
  last_failover_time,   \* self.last_failover_time
  events,               \* the failover event log
  now,                  \* the wall clock
  last,                 \* the last API call that returned and what it returned
  nTicks, nProbes, nSims,
  tpc, tloc,            \* position and locals of a check_and_failover call in progress
  mpc, mloc,            \* position and locals of a manual_failover call in progress
  spc, sloc,            \* position and locals of a simulate_disaster_scenario call in progress
  inflight,             \* record_failover_event calls in progress: caller -> event built
  loops                 \* the monitoring threads: loop -> alive, iterations completed

vars == <<active_provider, health_status, health_history, performance_data,
          current_performance, last_failover_time, events, now, last,
          nTicks, nProbes, nSims, tpc, tloc, mpc, mloc, spc, sloc,
          inflight, loops>>

(* ------------------------------ pure functions ----------------------- *)

\* the last n elements of s: Python s[-n:]
LastN(s, n) == IF Len(s) > n THEN SubSeq(s, Len(s) - n + 1, Len(s)) ELSE s

\* the first 10 samples kept instead of the last 10
update_health_history_Mut(hh, hs) ==
  [p \in Providers |->
     IF p \in DOMAIN hs
     THEN LET h == Append(hh[p], hs[p])
          IN  IF Len(h) > HistoryCap THEN SubSeq(h, 1, HistoryCap) ELSE h
     ELSE hh[p]]

\* update_health_history: append the current sample of every reported
\* provider and keep the last 10
update_health_history(hh, hs) ==
  [p \in Providers |->
     IF p \in DOMAIN hs
     THEN LET h == Append(hh[p], hs[p])
          IN  IF Len(h) > HistoryCap THEN LastN(h, HistoryCap) ELSE h
     ELSE hh[p]]

RECURSIVE TrailingFailures(_)
\* the loop of count_consecutive_failures over reversed(history)
TrailingFailures(h) ==
  IF h = << >> THEN 0
  ELSE IF ~h[Len(h)] THEN 1 + TrailingFailures(SubSeq(h, 1, Len(h) - 1))
  ELSE 0

count_consecutive_failures(hh, p) ==
  IF p \notin DOMAIN hh \/ hh[p] = << >> THEN 0 ELSE TrailingFailures(hh[p])

\* sum(1 for status in history if status['healthy'])
HealthyCount(h) == Cardinality({i \in 1..Len(h) : h[i]})

\* the denominator of a provider's score
ScoreDen(hh, p) == IF p \in DOMAIN hh /\ hh[p] # << >> THEN Len(hh[p]) ELSE 1

Max2(a, b) == IF a > b THEN a ELSE b

SetMax(S) == CHOOSE x \in S : \A y \in S : y <= x

SetMin(S) == CHOOSE x \in S : \A y \in S : x <= y

\* term 2 of the score times 1000 * den: 20 * ratio * reliability weight
ReliabilityTerm(hh, p) ==
  IF p \in DOMAIN hh /\ hh[p] # << >>
  THEN 200 * provider_weights[p].reliability * HealthyCount(hh[p])
  ELSE 0

\* term 3 of the score times 1000: (response_score + success_score) * weight
PerformanceTerm(perf, p) ==
  IF p \in DOMAIN perf
  THEN LET response_score == Max2(0, 10000 - perf[p].rt * 10)
           success_score  == perf[p].sr * 10
       IN  ((response_score + success_score) * provider_weights[p].performance) \div 100
  ELSE 0

\* the penalty kept through the 60th second
CooldownTerm_Mut(lft, t, p) ==
  IF p \in DOMAIN lft /\ lft[p] # NoTime /\ t - lft[p] <= recovery_time_threshold
  THEN 0 - 15000
  ELSE 0

\* a penalty of 60 points instead of 15
CooldownTerm_BigMut(lft, t, p) ==
  IF p \in DOMAIN lft /\ lft[p] # NoTime /\ t - lft[p] < recovery_time_threshold
  THEN 0 - 60000
  ELSE 0

\* term 4 of the score times 1000: the penalty for a recent failover
CooldownTerm(lft, t, p) ==
  IF p \in DOMAIN lft /\ lft[p] # NoTime /\ t - lft[p] < recovery_time_threshold
  THEN 0 - 15000
  ELSE 0

\* term 5 of the score times 1000: cost_score * cost weight, for the
\* cost_per_hour entries costs of CLOUD_PROVIDERS
CostTermOf(costs, p) ==
  IF p \in DOMAIN costs
  THEN LET all_costs == {costs[q] : q \in DOMAIN costs}
           max_cost  == SetMax(all_costs)
           min_cost  == SetMin(all_costs)
       IN  IF max_cost > min_cost
           THEN (100 * provider_weights[p].cost * (max_cost - costs[p]))
                   \div (max_cost - min_cost)
           ELSE 50 * provider_weights[p].cost
  ELSE 0

\* term 5 with the costs of config.py
CostTerm(p) == CostTermOf(cost_per_hour, p)

\* no early return for an unhealthy provider: only the 50 points are missing
calculate_provider_score_Mut(p, hs, hh, perf, lft, t) ==
  LET den == ScoreDen(hh, p)
      health == IF p \in DOMAIN hs /\ hs[p] THEN 50000 ELSE 0
  IN  <<den * (health + PerformanceTerm(perf, p) + CooldownTerm(lft, t, p) + CostTerm(p))
          + ReliabilityTerm(hh, p),
        den>>

\* calculate_provider_score for the cost_per_hour entries costs:
\* <<num, den>>, the score being num / (den * 1000)
ScoreWithCosts(costs, p, hs, hh, perf, lft, t) ==
  IF ~(p \in DOMAIN hs /\ hs[p])
  THEN <<0, 1>>
  ELSE LET den == ScoreDen(hh, p)
       IN  <<den * (50000 + PerformanceTerm(perf, p) + CooldownTerm(lft, t, p)
                      + CostTermOf(costs, p))
               + ReliabilityTerm(hh, p),
             den>>

\* calculate_provider_score with the costs of config.py
calculate_provider_score(p, hs, hh, perf, lft, t) ==
  ScoreWithCosts(cost_per_hour, p, hs, hh, perf, lft, t)

\* a > b for scores
ScoreGt(a, b) == a[1] * b[2] > b[1] * a[2]

\* a > b * 1.25 for scores
ScoreGt125(a, b) == 4 * a[1] * b[2] > 5 * b[1] * a[2]

\* a > n for a score a and an integer n
ScoreGtInt(a, n) == a[1] > n * 1000 * a[2]

RECURSIVE BestFrom(_, _, _, _, _, _, _, _, _)
\* the loop of select_best_provider over scores.items(), from position i
BestFrom(i, best, best_score, hs, exclude, hh, perf, lft, t) ==
  IF i > Len(ProviderOrder) THEN best
  ELSE LET p     == ProviderOrder[i]
           score == calculate_provider_score(p, hs, hh, perf, lft, t)
       IN  IF p \notin exclude /\ ScoreGt(score, best_score)
           THEN BestFrom(i + 1, p, score, hs, exclude, hh, perf, lft, t)
           ELSE BestFrom(i + 1, best, best_score, hs, exclude, hh, perf, lft, t)

RECURSIVE BestFrom_Mut(_, _, _, _, _, _, _, _, _)
\* the loop of select_best_provider with >= for >: the last of the
\* providers that share the highest score wins
BestFrom_Mut(i, best, best_score, hs, exclude, hh, perf, lft, t) ==
  IF i > Len(ProviderOrder) THEN best
  ELSE LET p     == ProviderOrder[i]
           score == calculate_provider_score(p, hs, hh, perf, lft, t)
       IN  IF p \notin exclude /\ ~ScoreGt(best_score, score)
           THEN BestFrom_Mut(i + 1, p, score, hs, exclude, hh, perf, lft, t)
           ELSE BestFrom_Mut(i + 1, best, best_score, hs, exclude, hh, perf, lft, t)

select_best_provider_LastMut(hs, exclude, hh, perf, lft, t) ==
  LET best == BestFrom_Mut(1, NoProvider, <<0 - 1000, 1>>, hs, exclude, hh, perf, lft, t)
  IN  IF best # NoProvider THEN best ELSE DEFAULT_PROVIDER

\* the first provider that is not excluded, whatever the scores
select_best_provider_Mut(hs, exclude, hh, perf, lft, t) ==
  LET candidates == {i \in 1..Len(ProviderOrder) : ProviderOrder[i] \notin exclude}
  IN  IF candidates = {} THEN DEFAULT_PROVIDER
      ELSE ProviderOrder[SetMin(candidates)]

select_best_provider(hs, exclude, hh, perf, lft, t) ==
  LET best == BestFrom(1, NoProvider, <<0 - 1000, 1>>, hs, exclude, hh, perf, lft, t)
  IN  IF best # NoProvider THEN best ELSE DEFAULT_PROVIDER

\* high CPU alone or high memory alone taken for high resource usage
detect_performance_degradation_OrMut(p, perf) ==
  IF p \notin DOMAIN perf THEN FALSE
  ELSE IF perf[p].rt > 500 THEN TRUE
  ELSE IF perf[p].sr < 950 THEN TRUE
  ELSE IF perf[p].cpu > 85 \/ perf[p].mem > 80 THEN TRUE
  ELSE FALSE

\* the response-time check left out
detect_performance_degradation_Mut(p, perf) ==
  IF p \notin DOMAIN perf THEN FALSE
  ELSE IF perf[p].sr < 950 THEN TRUE
  ELSE IF perf[p].cpu > 85 /\ perf[p].mem > 80 THEN TRUE
  ELSE FALSE

detect_performance_degradation(p, perf) ==
  IF p \notin DOMAIN perf THEN FALSE
  ELSE IF perf[p].rt > 500 THEN TRUE
  ELSE IF perf[p].sr < 950 THEN TRUE
  ELSE IF perf[p].cpu > 85 /\ perf[p].mem > 80 THEN TRUE
  ELSE FALSE

RECURSIVE BetterFrom_Mut(_, _, _, _, _, _, _)
\* the loop of check_for_better_provider without the floor of 60
BetterFrom_Mut(i, cur, hs, hh, perf, lft, t) ==
  IF i > Len(ProviderOrder) THEN NoProvider
  ELSE LET p             == ProviderOrder[i]
           current_score == calculate_provider_score(cur, hs, hh, perf, lft, t)
           score         == calculate_provider_score(p, hs, hh, perf, lft, t)
       IN  IF p # cur /\ ScoreGt125(score, current_score)
           THEN p
           ELSE BetterFrom_Mut(i + 1, cur, hs, hh, perf, lft, t)

check_for_better_provider_Mut(cur, hs, hh, perf, lft, t) ==
  BetterFrom_Mut(1, cur, hs, hh, perf, lft, t)

RECURSIVE BetterFrom(_, _, _, _, _, _, _)
\* the loop of check_for_better_provider, from position i
BetterFrom(i, cur, hs, hh, perf, lft, t) ==
  IF i > Len(ProviderOrder) THEN NoProvider
  ELSE LET p             == ProviderOrder[i]
           current_score == calculate_provider_score(cur, hs, hh, perf, lft, t)
           score         == calculate_provider_score(p, hs, hh, perf, lft, t)
       IN  IF p # cur /\ ScoreGt125(score, current_score) /\ ScoreGtInt(score, 60)
           THEN p
           ELSE BetterFrom(i + 1, cur, hs, hh, perf, lft, t)

check_for_better_provider(cur, hs, hh, perf, lft, t) ==
  BetterFrom(1, cur, hs, hh, perf, lft, t)

(* ------------------------------ operations --------------------------- *)

\* the 'scores' entry of an event: the score of every configured provider,
\* computed by _log_failover_event when it builds the event
EventScores(hs, hh, perf, lft, t) ==
  [p \in Providers |-> calculate_provider_score(p, hs, hh, perf, lft, t)]

\* the source provider logged as the target
FailoverEvent_Mut(from, to, reason, is_manual, scores, t) ==
  [timestamp |-> t, from_provider |-> from, to_provider |-> from,
   reason |-> reason, is_manual |-> is_manual, scores |-> scores,
   triggered_by |-> IF is_manual THEN "user" ELSE "advanced_system"]

\* the event _log_failover_event records
FailoverEvent(from, to, reason, is_manual, scores, t) ==
  [timestamp |-> t, from_provider |-> from, to_provider |-> to,
   reason |-> reason, is_manual |-> is_manual, scores |-> scores,
   triggered_by |-> IF is_manual THEN "user" ELSE "advanced_system"]

\* the superior-alternative case checked before the other two
Triggers_OrderMut(cur, hs, hh, perf, lft, t) ==
  LET consecutive_failures == count_consecutive_failures(hh, cur)
      better_provider      == check_for_better_provider(cur, hs, hh, perf, lft, t)
  IN  IF better_provider # NoProvider
      THEN [needs_failover |-> TRUE,
            failover_reason |-> "Better performing provider ("
                                  \o better_provider \o ") available"]
      ELSE IF /\ cur \in DOMAIN hs
              /\ ~hs[cur]
              /\ consecutive_failures >= consecutive_failures_threshold
      THEN [needs_failover |-> TRUE,
            failover_reason |-> "Provider unhealthy for "
                                  \o ToString(consecutive_failures)
                                  \o " consecutive checks"]
      ELSE IF cur \in DOMAIN perf /\ detect_performance_degradation(cur, perf)
      THEN [needs_failover |-> TRUE,
            failover_reason |-> "Significant performance degradation detected"]
      ELSE [needs_failover |-> FALSE, failover_reason |-> ""]

\* the first case with > in place of >=
Triggers_Mut(cur, hs, hh, perf, lft, t) ==
  LET consecutive_failures == count_consecutive_failures(hh, cur)
      better_provider      == check_for_better_provider(cur, hs, hh, perf, lft, t)
  IN  IF /\ cur \in DOMAIN hs
         /\ ~hs[cur]
         /\ consecutive_failures > consecutive_failures_threshold
      THEN [needs_failover |-> TRUE,
            failover_reason |-> "Provider unhealthy for "
                                  \o ToString(consecutive_failures)
                                  \o " consecutive checks"]
      ELSE IF cur \in DOMAIN perf /\ detect_performance_degradation(cur, perf)
      THEN [needs_failover |-> TRUE,
            failover_reason |-> "Significant performance degradation detected"]
      ELSE IF better_provider # NoProvider
      THEN [needs_failover |-> TRUE,
            failover_reason |-> "Better performing provider ("
                                  \o better_provider \o ") available"]
      ELSE [needs_failover |-> FALSE, failover_reason |-> ""]

\* the unhealthy trigger fires only above the threshold
Triggers_LateMut(cur, hs, hh, perf, lft, t) ==
  LET consecutive_failures == count_consecutive_failures(hh, cur)
      better_provider      == check_for_better_provider(cur, hs, hh, perf, lft, t)
  IN  IF /\ cur \in DOMAIN hs
         /\ ~hs[cur]
         /\ consecutive_failures > consecutive_failures_threshold
      THEN [needs_failover |-> TRUE,
            failover_reason |-> "Provider unhealthy for "
                                  \o ToString(consecutive_failures)
                                  \o " consecutive checks"]
      ELSE IF cur \in DOMAIN perf /\ detect_performance_degradation(cur, perf)
      THEN [needs_failover |-> TRUE,
            failover_reason |-> "Significant performance degradation detected"]
      ELSE IF better_provider # NoProvider
      THEN [needs_failover |-> TRUE,
            failover_reason |-> "Better performing provider ("
                                  \o better_provider \o ") available"]
      ELSE [needs_failover |-> FALSE, failover_reason |-> ""]

\* the trigger cases of check_and_failover, in the order of the code:
\* [needs_failover, failover_reason]
Triggers(cur, hs, hh, perf, lft, t) ==
  LET consecutive_failures == count_consecutive_failures(hh, cur)
      better_provider      == check_for_better_provider(cur, hs, hh, perf, lft, t)
  IN  IF /\ cur \in DOMAIN hs
         /\ ~hs[cur]
         /\ consecutive_failures >= consecutive_failures_threshold
      THEN [needs_failover |-> TRUE,
            failover_reason |-> "Provider unhealthy for "
                                  \o ToString(consecutive_failures)
                                  \o " consecutive checks"]
      ELSE IF cur \in DOMAIN perf /\ detect_performance_degradation(cur, perf)
      THEN [needs_failover |-> TRUE,
            failover_reason |-> "Significant performance degradation detected"]
      ELSE IF better_provider # NoProvider
      THEN [needs_failover |-> TRUE,
            failover_reason |-> "Better performing provider ("
                                  \o better_provider \o ") available"]
      ELSE [needs_failover |-> FALSE, failover_reason |-> ""]

\* _perform_advanced_failover on the state (ap, lft, ev) at time t; hs is
\* the health map the caller read, hs_log the one _log_failover_event reads
PerformAdvancedFailover(failed_provider, hs, reason, ap, hh, perf, lft, ev, t, hs_log) ==
  LET best_provider == select_best_provider(hs, {failed_provider}, hh, perf, lft, t)
      lft2 == IF failed_provider \in DOMAIN lft
              THEN [lft EXCEPT ![failed_provider] = t]
              ELSE lft
  IN  IF best_provider = NoProvider \/ best_provider = failed_provider
      THEN [active_provider |-> ap, last_failover_time |-> lft, events |-> ev,
            ok |-> FALSE]
      ELSE [active_provider |-> best_provider,
            last_failover_time |-> lft2,
            events |-> Append(ev, FailoverEvent(failed_provider, best_provider,
                                                reason, FALSE,
                                                EventScores(hs_log, hh, perf, lft2, t),
                                                t)),
            ok |-> TRUE]

\* the early return for an empty health map left out
CheckAndFailover_EmptyMut(ap, hs, hh, perf, lft, ev, t) ==
  LET hh2 == update_health_history(hh, hs)
      trg == Triggers(ap, hs, hh2, perf, lft, t)
      res == PerformAdvancedFailover(ap, hs, trg.failover_reason,
                                     ap, hh2, perf, lft, ev, t, hs)
  IN  IF trg.needs_failover
      THEN [active_provider |-> res.active_provider, health_history |-> hh2,
            last_failover_time |-> res.last_failover_time,
            events |-> res.events, ret |-> TRUE]
      ELSE [active_provider |-> ap, health_history |-> hh2,
            last_failover_time |-> lft, events |-> ev, ret |-> FALSE]

\* a tick without a trigger that still stamps the active provider's
\* failover time
CheckAndFailover_StampMut(ap, hs, hh, perf, lft, ev, t) ==
  IF hs = << >>
  THEN [active_provider |-> ap, health_history |-> hh,
        last_failover_time |-> lft, events |-> ev, ret |-> FALSE]
  ELSE LET hh2 == update_health_history(hh, hs)
           trg == Triggers(ap, hs, hh2, perf, lft, t)
           res == PerformAdvancedFailover(ap, hs, trg.failover_reason,
                                          ap, hh2, perf, lft, ev, t, hs)
       IN  IF trg.needs_failover
           THEN [active_provider |-> res.active_provider, health_history |-> hh2,
                 last_failover_time |-> res.last_failover_time,
                 events |-> res.events, ret |-> TRUE]
           ELSE [active_provider |-> ap, health_history |-> hh2,
                 last_failover_time |-> [lft EXCEPT ![ap] = t],
                 events |-> ev, ret |-> FALSE]

\* check_and_failover as one step, on the state (ap, hh, lft, ev) with the
\* health map hs and the performance map perf
CheckAndFailover(ap, hs, hh, perf, lft, ev, t) ==
  IF hs = << >>
  THEN [active_provider |-> ap, health_history |-> hh,
        last_failover_time |-> lft, events |-> ev, ret |-> FALSE]
  ELSE LET hh2 == update_health_history(hh, hs)
           trg == Triggers(ap, hs, hh2, perf, lft, t)
           res == PerformAdvancedFailover(ap, hs, trg.failover_reason,
                                          ap, hh2, perf, lft, ev, t, hs)
       IN  IF trg.needs_failover
           THEN [active_provider |-> res.active_provider, health_history |-> hh2,
                 last_failover_time |-> res.last_failover_time,
                 events |-> res.events, ret |-> TRUE]
           ELSE [active_provider |-> ap, health_history |-> hh2,
                 last_failover_time |-> lft, events |-> ev, ret |-> FALSE]

\* the guard left out
ManualIsNoop_Mut(current_provider, to_provider) == FALSE

\* the guard of manual_failover: the target is already active
ManualIsNoop(current_provider, to_provider) == current_provider = to_provider

\* the failover time not recorded, as in FailoverManager.manual_failover
ManualApply_Mut(current_provider, to_provider, hs, hh, perf, lft, ev, t) ==
  [active_provider |-> to_provider,
   last_failover_time |-> lft,
   events |-> Append(ev, FailoverEvent(current_provider, to_provider,
                                       "Manual failover", TRUE,
                                       EventScores(hs, hh, perf, lft, t), t))]

\* the writes of manual_failover after its guard
ManualApply(current_provider, to_provider, hs, hh, perf, lft, ev, t) ==
  LET lft2 == IF current_provider \in DOMAIN lft
              THEN [lft EXCEPT ![current_provider] = t]
              ELSE lft
  IN  [active_provider |-> to_provider,
       last_failover_time |-> lft2,
       events |-> Append(ev, FailoverEvent(current_provider, to_provider,
                                           "Manual failover", TRUE,
                                           EventScores(hs, hh, perf, lft2, t), t))]

\* a Python bool as the caller sees it
PyBool(b) == IF b THEN "True" ELSE "False"

Idle == [cur |-> NoProvider, hs |-> << >>, reason |-> ""]

MIdle == [cur |-> NoProvider, to |-> NoProvider]

\* the monitoring threads: run_health_check_thread,
\* run_performance_monitor_thread and run_failover_check_thread
Loops == {"health", "performance", "failover"}

\* a monitoring thread that has just been started
LoopStarted == [alive |-> TRUE, iterations |-> 0]

\* no simulate_disaster_scenario call in progress
SIdle == [cur |-> NoProvider, original |-> << >>, result |-> FALSE]

CallsUnchanged == UNCHANGED <<tpc, tloc, mpc, mloc, spc, sloc, inflight, loops>>

CountersUnchanged == UNCHANGED <<nTicks, nProbes, nSims>>

Init ==
  /\ active_provider = DEFAULT_PROVIDER
  /\ health_status \in [Providers -> BOOLEAN]
  /\ health_history = [p \in Providers |-> << >>]
  /\ performance_data \in InitialPerformance
  /\ current_performance = performance_data
  /\ last_failover_time = [p \in Providers |-> NoTime]
  /\ events = << >>
  /\ now = 0
  /\ last = [op |-> "init", ret |-> "None"]
  /\ nTicks = 0
  /\ nProbes = 0
  /\ nSims = 0
  /\ tpc = "idle"
  /\ tloc = Idle
  /\ mpc = "idle"
  /\ mloc = MIdle
  /\ spc = "idle"
  /\ sloc = SIdle
  /\ inflight = << >>
  /\ loops = [l \in Loops |-> LoopStarted]

\* HealthChecker.check_health records the probe result of one provider
HealthCheck(p, status) ==
  /\ nProbes < MaxProbes
  /\ nProbes' = nProbes + 1
  /\ p \in DOMAIN health_status => health_status[p] # status
  /\ health_status' = [q \in DOMAIN health_status \cup {p} |->
                         IF q = p THEN status ELSE health_status[q]]
  /\ UNCHANGED <<active_provider, health_history, performance_data,
                 current_performance, last_failover_time, events, now, last,
                 nTicks, nSims>>
  /\ CallsUnchanged

\* the health store cannot be read: get_current_health_status returns {}
HealthUnavailable ==
  /\ nProbes < MaxProbes
  /\ nProbes' = nProbes + 1
  /\ health_status # << >>
  /\ health_status' = << >>
  /\ UNCHANGED <<active_provider, health_history, performance_data,
                 current_performance, last_failover_time, events, now, last,
                 nTicks, nSims>>
  /\ CallsUnchanged

\* time passes
Elapse ==
  /\ now + ClockStep <= MaxNow
  /\ now' = now + ClockStep
  /\ UNCHANGED <<active_provider, health_status, health_history, performance_data,
                 current_performance, last_failover_time, events, last>>
  /\ CountersUnchanged
  /\ CallsUnchanged

\* one iteration of run_failover_check_thread, run without interruption
LoopTick ==
  /\ nTicks < MaxTicks
  /\ Len(events) < MaxEvents
  /\ nTicks' = nTicks + 1
  /\ LET r == CheckAndFailover(active_provider, health_status, health_history,
                               performance_data, last_failover_time, events, now)
     IN  /\ current_performance' = performance_data
         /\ active_provider' = r.active_provider
         /\ health_history' = r.health_history
         /\ last_failover_time' = r.last_failover_time
         /\ events' = r.events
         /\ last' = [op |-> "tick", ret |-> PyBool(r.ret)]
  /\ UNCHANGED <<health_status, performance_data, now, nProbes, nSims>>
  /\ CallsUnchanged

\* manual_failover(to_provider), run without interruption
ManualFailover(to_provider) ==
  /\ ManualIsNoop(active_provider, to_provider) \/ Len(events) < MaxEvents
  /\ IF ManualIsNoop(active_provider, to_provider)
     THEN /\ last' = [op |-> "manual", ret |-> "False"]
          /\ UNCHANGED <<active_provider, last_failover_time, events>>
     ELSE LET r == ManualApply(active_provider, to_provider, health_status,
                               health_history, current_performance,
                               last_failover_time, events, now)
          IN  /\ last' = [op |-> "manual", ret |-> "True"]
              /\ active_provider' = r.active_provider
              /\ last_failover_time' = r.last_failover_time
              /\ events' = r.events
  /\ UNCHANGED <<health_status, health_history, performance_data,
                 current_performance, now>>
  /\ CountersUnchanged
  /\ CallsUnchanged

\* the failure history injected into every provider
InjectFailures_Mut(hh, p) ==
  [q \in DOMAIN hh |-> hh[q] \o [i \in 1..(consecutive_failures_threshold + 1) |-> FALSE]]

\* the failure history a disaster scenario injects into provider p
InjectFailures(hh, p) ==
  [hh EXCEPT ![p] = hh[p] \o [i \in 1..(consecutive_failures_threshold + 1) |-> FALSE]]

Scenarios == {"provider_failure", "performance_degradation", "network_outage"}

\* simulate_disaster_scenario(scenario), run without interruption; sc is the
\* scenario random.choice picks for "random", failed_provider the provider
\* random.choice picks for a network outage
SimulateDisaster(scenario, sc, failed_provider) ==
  /\ nSims < MaxSims
  /\ Len(events) < MaxEvents
  /\ nSims' = nSims + 1
  /\ IF scenario # "random" THEN sc = scenario ELSE sc \in Scenarios
  /\ failed_provider \in Providers \ {active_provider}
  /\ LET cur == active_provider
     IN  CASE sc = "provider_failure" /\ cur \notin DOMAIN health_history ->
                \* self.health_history[current_provider] raises KeyError
                /\ last' = [op |-> "simulate", ret |-> "KeyError"]
                /\ UNCHANGED <<active_provider, health_history,
                               last_failover_time, events>>
           [] sc = "provider_failure" /\ cur \in DOMAIN health_history ->
                LET r == CheckAndFailover(cur, health_status,
                                          InjectFailures(health_history, cur),
                                          current_performance,
                                          last_failover_time, events, now)
                IN  /\ active_provider' = r.active_provider
                    /\ health_history' = r.health_history
                    /\ last_failover_time' = r.last_failover_time
                    /\ events' = r.events
                    /\ last' = [op |-> "simulate", ret |-> PyBool(r.ret)]
           [] sc = "performance_degradation" /\ cur \notin DOMAIN current_performance ->
                /\ last' = [op |-> "simulate", ret |-> "False"]
                /\ UNCHANGED <<active_provider, health_history,
                               last_failover_time, events>>
           [] sc = "performance_degradation" /\ cur \in DOMAIN current_performance ->
                \* the tick runs on the degraded snapshot; the original one
                \* is put back afterwards
                LET r == CheckAndFailover(cur, health_status, health_history,
                                          [current_performance EXCEPT ![cur] = PerfDegraded],
                                          last_failover_time, events, now)
                IN  /\ active_provider' = r.active_provider
                    /\ health_history' = r.health_history
                    /\ last_failover_time' = r.last_failover_time
                    /\ events' = r.events
                    /\ last' = [op |-> "simulate", ret |-> PyBool(r.ret)]
           [] sc = "network_outage" ->
                LET r == CheckAndFailover(cur, health_status,
                                          InjectFailures(health_history, failed_provider),
                                          current_performance,
                                          last_failover_time, events, now)
                IN  /\ active_provider' = r.active_provider
                    /\ health_history' = r.health_history
                    /\ last_failover_time' = r.last_failover_time
                    /\ events' = r.events
                    /\ last' = [op |-> "simulate", ret |-> "False"]
  /\ UNCHANGED <<health_status, performance_data, current_performance, now,
                 nTicks, nProbes>>
  /\ CallsUnchanged

\* the restoration left out
RestorePerformance_Mut(perf, cur, original) == perf

\* self.current_performance[current_provider] = original_perf
RestorePerformance(perf, cur, original) ==
  [q \in DOMAIN perf \cup {cur} |-> IF q = cur THEN original ELSE perf[q]]

\* the performance monitor rewrites PERFORMANCE_DATA_FILE, or the file
\* cannot be read and get_performance_data returns {}
PerformanceUpdate(perf) ==
  /\ perf # performance_data
  /\ performance_data' = perf
  /\ UNCHANGED <<active_provider, health_status, health_history,
                 current_performance, last_failover_time, events, now, last>>
  /\ CountersUnchanged
  /\ CallsUnchanged

\* simulate_disaster_scenario("performance_degradation") up to the copy of
\* the active provider's snapshot
DegradationBegin ==
  /\ spc = "idle"
  /\ nSims < MaxSims
  /\ nSims' = nSims + 1
  /\ IF active_provider \in DOMAIN current_performance
     THEN /\ spc' = "degrade"
          /\ sloc' = [cur |-> active_provider,
                      original |-> current_performance[active_provider],
                      result |-> FALSE]
          /\ last' = last
     ELSE /\ last' = [op |-> "simulate", ret |-> "False"]
          /\ UNCHANGED <<spc, sloc>>
  /\ UNCHANGED <<active_provider, health_status, health_history, performance_data,
                 current_performance, last_failover_time, events, now,
                 nTicks, nProbes, tpc, tloc, mpc, mloc,
                 inflight, loops>>

\* the degraded values written into the snapshot the map holds by now; a map
\* that has lost the provider raises KeyError out of the call
DegradationWrite ==
  /\ spc = "degrade"
  /\ IF sloc.cur \in DOMAIN current_performance
     THEN /\ current_performance' =
               [current_performance EXCEPT ![sloc.cur] = PerfDegraded]
          /\ spc' = "tick"
          /\ UNCHANGED <<sloc, last>>
     ELSE /\ last' = [op |-> "simulate", ret |-> "KeyError"]
          /\ spc' = "idle"
          /\ sloc' = SIdle
          /\ UNCHANGED current_performance
  /\ UNCHANGED <<active_provider, health_status, health_history, performance_data,
                 last_failover_time, events, now, tpc, tloc, mpc, mloc,
                 inflight, loops>>
  /\ CountersUnchanged

\* the check_and_failover call of the simulation
DegradationTick ==
  /\ spc = "tick"
  /\ Len(events) < MaxEvents
  /\ LET r == CheckAndFailover(active_provider, health_status, health_history,
                               current_performance, last_failover_time, events, now)
     IN  /\ spc' = "restore"
         /\ sloc' = [sloc EXCEPT !.result = r.ret]
         /\ active_provider' = r.active_provider
         /\ health_history' = r.health_history
         /\ last_failover_time' = r.last_failover_time
         /\ events' = r.events
  /\ UNCHANGED <<health_status, performance_data, current_performance, now, last,
                 tpc, tloc, mpc, mloc,
                 inflight, loops>>
  /\ CountersUnchanged

\* the copy put back and the result of the tick returned
DegradationRestore ==
  /\ spc = "restore"
  /\ spc' = "idle"
  /\ sloc' = SIdle
  /\ current_performance' =
       RestorePerformance(current_performance, sloc.cur, sloc.original)
  /\ last' = [op |-> "simulate", ret |-> PyBool(sloc.result)]
  /\ UNCHANGED <<active_provider, health_status, health_history, performance_data,
                 last_failover_time, events, now, tpc, tloc, mpc, mloc,
                 inflight, loops>>
  /\ CountersUnchanged

\* check_and_failover in the background loop, up to its decision: refresh
\* the performance map, read the health map, update the history, load the
\* active provider and evaluate the triggers
TickBegin ==
  /\ tpc = "idle"
  /\ nTicks < MaxTicks
  /\ Len(events) < MaxEvents
  /\ nTicks' = nTicks + 1
  /\ current_performance' = performance_data
  /\ IF health_status = << >>
     THEN /\ last' = [op |-> "tick", ret |-> "False"]
          /\ UNCHANGED <<health_history, tpc, tloc>>
     ELSE LET hh2 == update_health_history(health_history, health_status)
              trg == Triggers(active_provider, health_status, hh2,
                              performance_data, last_failover_time, now)
          IN  /\ health_history' = hh2
              /\ IF trg.needs_failover
                 THEN /\ tpc' = "perform"
                      /\ tloc' = [cur |-> active_provider, hs |-> health_status,
                                  reason |-> trg.failover_reason]
                      /\ last' = last
                 ELSE /\ last' = [op |-> "tick", ret |-> "False"]
                      /\ UNCHANGED <<tpc, tloc>>
  /\ UNCHANGED <<active_provider, health_status, performance_data,
                 last_failover_time, events, now, nProbes, nSims,
                 mpc, mloc, spc, sloc,
                 inflight, loops>>

\* the rest of check_and_failover: _perform_advanced_failover for the
\* provider the call loaded, then return True
TickCommit ==
  /\ tpc = "perform"
  /\ LET r == PerformAdvancedFailover(tloc.cur, tloc.hs, tloc.reason,
                                      active_provider, health_history,
                                      current_performance, last_failover_time,
                                      events, now, health_status)
     IN  /\ active_provider' = r.active_provider
         /\ last_failover_time' = r.last_failover_time
         /\ events' = r.events
  /\ last' = [op |-> "tick", ret |-> "True"]
  /\ tpc' = "idle"
  /\ tloc' = Idle
  /\ UNCHANGED <<health_status, health_history, performance_data,
                 current_performance, now, mpc, mloc, spc, sloc,
                 inflight, loops>>
  /\ CountersUnchanged

\* manual_failover(to_provider) up to its guard: load the active provider
ManualBegin(to_provider) ==
  /\ mpc = "idle"
  /\ Len(events) < MaxEvents
  /\ IF ManualIsNoop(active_provider, to_provider)
     THEN /\ last' = [op |-> "manual", ret |-> "False"]
          /\ UNCHANGED <<mpc, mloc>>
     ELSE /\ mpc' = "write"
          /\ mloc' = [cur |-> active_provider, to |-> to_provider]
          /\ last' = last
  /\ UNCHANGED <<active_provider, health_status, health_history, performance_data,
                 current_performance, last_failover_time, events, now, tpc, tloc,
                 spc, sloc, inflight, loops>>
  /\ CountersUnchanged

\* the rest of manual_failover: save the target, record the failover time
\* of the provider the call loaded, log the event, return True
ManualCommit ==
  /\ mpc = "write"
  /\ LET r == ManualApply(mloc.cur, mloc.to, health_status, health_history,
                          current_performance, last_failover_time, events, now)
     IN  /\ active_provider' = r.active_provider
         /\ last_failover_time' = r.last_failover_time
         /\ events' = r.events
  /\ last' = [op |-> "manual", ret |-> "True"]
  /\ mpc' = "idle"
  /\ mloc' = MIdle
  /\ UNCHANGED <<health_status, health_history, performance_data,
                 current_performance, now, tpc, tloc, spc, sloc,
                 inflight, loops>>
  /\ CountersUnchanged

\* the probe thread records a sample of some provider
HealthProbes ==
  \E p \in Providers, status \in BOOLEAN : HealthCheck(p, status)

\* the health store as the probe thread changes it, or out of reach
HealthEnvironment ==
  \/ HealthProbes
  \/ HealthUnavailable

\* probes and the clock, with the health store in reach
Environment ==
  \/ HealthProbes
  \/ Elapse

\* the failover loop and the manual override, each call run as one step
Next ==
  \/ Environment
  \/ LoopTick
  \/ \E to_provider \in Targets : ManualFailover(to_provider)

Spec == Init /\ [][Next]_vars

\* a fresh installation: every provider healthy and in good shape
InitFresh ==
  /\ Init
  /\ health_status = [p \in Providers |-> TRUE]
  /\ performance_data = [p \in Providers |-> PerfGood]

\* the failover loop and the disaster simulator
NextSim ==
  \/ HealthEnvironment
  \/ LoopTick
  \/ \E scenario \in Scenarios \cup {"random"}, sc \in Scenarios, f \in Providers :
       SimulateDisaster(scenario, sc, f)

SpecSim == InitFresh /\ [][NextSim]_vars

\* the failover loop thread and a caller of manual_failover, interleaved
NextConc ==
  \/ HealthEnvironment
  \/ Elapse
  \/ TickBegin
  \/ TickCommit
  \/ \E to_provider \in Targets : ManualBegin(to_provider)
  \/ ManualCommit

SpecConc == InitFresh /\ [][NextConc]_vars

\* what the performance monitor leaves in the file: every provider in good
\* shape, every provider slow, or nothing that can be read
PerformanceFiles ==
  {[p \in Providers |-> snapshot] : snapshot \in {PerfGood, PerfSlow}} \cup {<< >>}

\* the degradation simulation step by step, next to the failover loop that
\* refreshes the performance map and the monitor that rewrites the file
NextDegradation ==
  \/ HealthUnavailable
  \/ \E perf \in PerformanceFiles : PerformanceUpdate(perf)
  \/ LoopTick
  \/ DegradationBegin
  \/ DegradationWrite
  \/ DegradationTick
  \/ DegradationRestore

SpecDegradation == InitFresh /\ [][NextDegradation]_vars

\* the disaster simulator called on a manager in any shape, next to the
\* failover loop
NextScenarios ==
  \/ LoopTick
  \/ \E scenario \in Scenarios \cup {"random"}, sc \in Scenarios, f \in Providers :
       SimulateDisaster(scenario, sc, f)

SpecScenarios == Init /\ [][NextScenarios]_vars

(* ------------------------------ the event log ------------------------- *)

\* the callers of record_failover_event: the failover loop thread through
\* _log_failover_event, and a caller of manual_failover
Recorders == {"loop", "manual"}

\* the smaller of two numbers
Min2(a, b) == IF a < b THEN a ELSE b

\* the orders in which the rows of ev can come back from
\* order_by(occurred_at.desc()): the row numbers with occurred_at descending,
\* rows of equal occurred_at in any order
DescendingOrders(ev) ==
  {o \in [1..Len(ev) -> 1..Len(ev)] :
     /\ \A i, j \in 1..Len(ev) : i # j => o[i] # o[j]
     /\ \A i \in 1..(Len(ev) - 1) : ev[o[i]].timestamp >= ev[o[i + 1]].timestamp}

\* the dictionary get_recent_failover_events builds from row number i of ev
\* (its 'details' entry is left out)
EventData(ev, i) ==
  [id |-> i, from_provider |-> ev[i].from_provider,
   to_provider |-> ev[i].to_provider, reason |-> ev[i].reason,
   is_manual |-> ev[i].is_manual, triggered_by |-> ev[i].triggered_by,
   occurred_at |-> ev[i].timestamp]

\* the lists get_recent_failover_events(limit) can return on the table ev
get_recent_failover_events(ev, limit) ==
  {[i \in 1..Min2(limit, Len(ev)) |-> EventData(ev, o[i])] :
     o \in DescendingOrders(ev)}

\* record_failover_event up to session.add: the FailoverEvent object is built
\* with occurred_at = datetime.now(); the loop thread records an automatic
\* failover, the other caller a manual one; the clock has moved on since the
\* last object was built, so that no two rows carry the same occurred_at
RecordBegin(c, to_provider) ==
  /\ c \notin DOMAIN inflight
  /\ to_provider # active_provider
  /\ Len(events) + Cardinality(DOMAIN inflight) < MaxLog
  /\ \A i \in 1..Len(events) : events[i].timestamp < now
  /\ \A d \in DOMAIN inflight : inflight[d].timestamp < now
  /\ inflight' = [d \in DOMAIN inflight \cup {c} |->
                    IF d = c
                    THEN FailoverEvent(active_provider, to_provider,
                           IF c = "manual" THEN "Manual failover"
                           ELSE "Significant performance degradation detected",
                           c = "manual",
                           EventScores(health_status, health_history,
                                       current_performance, last_failover_time, now),
                           now)
                    ELSE inflight[d]]
  /\ UNCHANGED <<active_provider, health_status, health_history, performance_data,
                 current_performance, last_failover_time, events, now, last,
                 tpc, tloc, mpc, mloc, spc, sloc, loops>>
  /\ CountersUnchanged

\* session.commit() succeeds: the row is in the table and the call returns True
RecordCommit(c) ==
  /\ c \in DOMAIN inflight
  /\ events' = Append(events, inflight[c])
  /\ inflight' = [d \in DOMAIN inflight \ {c} |-> inflight[d]]
  /\ last' = [op |-> "record", ret |-> "True"]
  /\ UNCHANGED <<active_provider, health_status, health_history, performance_data,
                 current_performance, last_failover_time, now,
                 tpc, tloc, mpc, mloc, spc, sloc, loops>>
  /\ CountersUnchanged

\* session.commit() raises: rollback, nothing is stored, the call returns False
RecordFail(c) ==
  /\ c \in DOMAIN inflight
  /\ inflight' = [d \in DOMAIN inflight \ {c} |-> inflight[d]]
  /\ last' = [op |-> "record", ret |-> "False"]
  /\ UNCHANGED <<active_provider, health_status, health_history, performance_data,
                 current_performance, last_failover_time, events, now,
                 tpc, tloc, mpc, mloc, spc, sloc, loops>>
  /\ CountersUnchanged

\* a call of get_recent_failover_events(limit)
RecentCall(limit) ==
  /\ \E r \in get_recent_failover_events(events, limit) :
       last' = [op |-> "recent", ret |-> "list", limit |-> limit, value |-> r]
  /\ UNCHANGED <<active_provider, health_status, health_history, performance_data,
                 current_performance, last_failover_time, events, now,
                 tpc, tloc, mpc, mloc, spc, sloc, inflight, loops>>
  /\ CountersUnchanged

\* the event log written by two callers and read back
NextLog ==
  \/ Elapse
  \/ \E c \in Recorders, to_provider \in Providers : RecordBegin(c, to_provider)
  \/ \E c \in Recorders : RecordCommit(c)
  \/ \E c \in Recorders : RecordFail(c)
  \/ \E limit \in 0..MaxLog : RecentCall(limit)

SpecLog == InitFresh /\ [][NextLog]_vars

(* ------------------------------ the functions on their own ------------ *)

\* the health histories of at most n samples
HistoriesUpTo(n) == UNION {[1..k -> BOOLEAN] : k \in 0..n}

\* the health maps get_current_health_status can return: a sample of every
\* provider, of every provider but one that has no probe on record, or none
HealthMaps ==
  [Providers -> BOOLEAN] \cup {<< >>}
    \cup UNION {[Providers \ {q} -> BOOLEAN] : q \in Providers}

\* a manager at any moment of its life, as far as its functions read it: any
\* active provider file, any health map, the same history and the same
\* failover time for every provider, and either every provider in good or in
\* slow shape or, in an otherwise fresh manager, the same boundary snapshot
\* or no performance data at all
InitFn ==
  /\ active_provider \in Providers
  /\ health_status \in HealthMaps
  /\ \E h \in HistoriesUpTo(MaxLen) : health_history = [p \in Providers |-> h]
  /\ \E t \in {NoTime, 0} : last_failover_time = [p \in Providers |-> t]
  /\ \/ \E snapshot \in {PerfGood, PerfSlow} :
          performance_data = [p \in Providers |-> snapshot]
     \/ /\ health_status = [p \in Providers |-> TRUE]
        /\ health_history = [p \in Providers |-> << >>]
        /\ last_failover_time = [p \in Providers |-> NoTime]
        /\ \/ \E snapshot \in PerfBoundary :
                performance_data = [p \in Providers |-> snapshot]
           \/ performance_data = << >>
  /\ current_performance = performance_data
  /\ events = << >>
  /\ now = 0
  /\ last = [op |-> "init", ret |-> "None"]
  /\ nTicks = 0
  /\ nProbes = 0
  /\ nSims = 0
  /\ tpc = "idle"
  /\ tloc = Idle
  /\ mpc = "idle"
  /\ mloc = MIdle
  /\ spc = "idle"
  /\ sloc = SIdle
  /\ inflight = << >>
  /\ loops = [l \in Loops |-> LoopStarted]

\* what a call that only reads leaves alone
ReadOnly ==
  /\ UNCHANGED <<active_provider, health_status, health_history, performance_data,
                 current_performance, last_failover_time, events, now>>
  /\ CountersUnchanged
  /\ CallsUnchanged

\* a call of count_consecutive_failures(p)
CountCall(p) ==
  /\ last' = [op |-> "count",
              ret |-> ToString(count_consecutive_failures(health_history, p))]
  /\ ReadOnly

\* a call of calculate_provider_score(p, get_current_health_status())
ScoreCall(p) ==
  /\ last' = [op |-> "score",
              ret |-> ToString(calculate_provider_score(p, health_status,
                                 health_history, current_performance,
                                 last_failover_time, now))]
  /\ ReadOnly

\* a call of detect_performance_degradation(p)
DetectCall(p) ==
  /\ last' = [op |-> "detect",
              ret |-> PyBool(detect_performance_degradation(p, current_performance))]
  /\ ReadOnly

\* a call of select_best_provider(get_current_health_status(), [ex]), as
\* _perform_advanced_failover makes it with ex the provider it leaves, or
\* with no exclusion when ex is None
SelectCall(ex) ==
  /\ last' = [op |-> "select",
              ret |-> select_best_provider(health_status, {ex}, health_history,
                                           current_performance,
                                           last_failover_time, now)]
  /\ ReadOnly

\* the functions called on their own, and the loop tick that uses them
NextFn ==
  \/ \E p \in Providers : CountCall(p)
  \/ \E p \in Providers : ScoreCall(p)
  \/ \E p \in Providers : DetectCall(p)
  \/ \E ex \in {active_provider, NoProvider} : SelectCall(ex)
  \/ LoopTick

SpecFn == InitFn /\ [][NextFn]_vars

(* ------------------------------ failing input and output --------------- *)

\* the exception classes that matter, each with the class it derives from
ExceptionBase ==
  [ConnectionError |-> "RequestException", Timeout |-> "RequestException",
   RequestException |-> "OSError", SQLAlchemyError |-> "Exception",
   OSError |-> "Exception", Exception |-> "BaseException"]

\* isinstance(exc, cls) for an exception of class exc
RECURSIVE IsInstance(_, _)
IsInstance(exc, cls) ==
  \/ exc = cls
  \/ exc \in DOMAIN ExceptionBase /\ IsInstance(ExceptionBase[exc], cls)

\* an exception of class exc raised under the except clauses in 'clauses'
\* (innermost first) reaches the statement that holds the outermost one
Escapes(exc, clauses) ==
  \A i \in 1..Len(clauses) : ~IsInstance(exc, clauses[i])

\* the places of one iteration of each monitoring loop where a call to the
\* network, the database or the file system can raise, with the class raised
\* and the except clauses between that place and the loop's 'while True'
RaiseSites ==
  [health |->
     [probe_transport |-> [raises |-> "ConnectionError",
                           clauses |-> <<"RequestException">>],
      probe_timeout   |-> [raises |-> "Timeout",
                           clauses |-> <<"RequestException">>],
      record_commit   |-> [raises |-> "SQLAlchemyError",
                           clauses |-> <<"Exception", "RequestException">>],
      record_rollback |-> [raises |-> "SQLAlchemyError",
                           clauses |-> <<"RequestException">>],
      save_status     |-> [raises |-> "OSError",
                           clauses |-> <<"Exception">>]],
   performance |->
     [read_health     |-> [raises |-> "SQLAlchemyError",
                           clauses |-> <<"Exception", "Exception", "Exception">>],
      write_file      |-> [raises |-> "OSError",
                           clauses |-> <<"Exception", "Exception">>]],
   failover |->
     [read_performance |-> [raises |-> "OSError",
                            clauses |-> <<"Exception">>],
      read_health      |-> [raises |-> "SQLAlchemyError",
                            clauses |-> <<"Exception", "Exception">>],
      save_active      |-> [raises |-> "OSError",
                            clauses |-> <<"Exception", "Exception">>],
      record_commit    |-> [raises |-> "SQLAlchemyError",
                            clauses |-> <<"Exception", "Exception">>]]]

\* what can happen in one iteration of loop l: nothing raises, or one place does
Faults(l) == DOMAIN RaiseSites[l] \cup {"none"}

\* the iteration of loop l in which place f raises ends the thread
EndsLoop(l, f) ==
  f # "none" /\ Escapes(RaiseSites[l][f].raises, RaiseSites[l][f].clauses)

\* the loop variable after an iteration of loop l in which f happened: the
\* thread is gone if the exception reached 'while True', else the error was
\* logged and the loop sleeps until its next iteration
AfterIteration(l, f) ==
  [loops EXCEPT ![l] =
     IF EndsLoop(l, f)
     THEN [@ EXCEPT !.alive = FALSE]
     ELSE [@ EXCEPT !.iterations = @ + 1]]

\* the outcomes of open(ACTIVE_PROVIDER_FILE, 'w') followed by json.dump
FileWrites == {"written", "unwritable", "truncated"}

\* what ACTIVE_PROVIDER_FILE reads as after _save_active_provider(provider)
\* when it read as 'file' before: the provider written; the old contents when
\* the file could not be opened; and DEFAULT_PROVIDER, which is what
\* _load_active_provider and get_active_provider return for a file that was
\* truncated by open and not written
SaveActiveProvider(file, provider, w) ==
  IF w = "written" THEN provider
  ELSE IF w = "unwritable" THEN file
  ELSE DEFAULT_PROVIDER

\* one iteration of run_health_check_thread: check_health probes the
\* providers and saves the status; a probe that raises a RequestException
\* makes its provider unhealthy, an iteration that ends the thread or cannot
\* save leaves the health store as it was
HealthIteration(f) ==
  /\ loops["health"].alive
  /\ loops["health"].iterations < MaxIterations
  /\ loops' = AfterIteration("health", f)
  /\ IF EndsLoop("health", f) \/ f = "save_status"
     THEN UNCHANGED health_status
     ELSE \E p \in Providers, status \in BOOLEAN :
            /\ f \in {"probe_transport", "probe_timeout"} => ~status
            /\ health_status' = [q \in Providers |->
                                   IF q = p THEN status
                                   ELSE IF q \in DOMAIN health_status
                                        THEN health_status[q] ELSE TRUE]
  /\ UNCHANGED <<active_provider, health_history, performance_data,
                 current_performance, last_failover_time, events, now, last,
                 tpc, tloc, mpc, mloc, spc, sloc, inflight>>
  /\ CountersUnchanged

\* one iteration of run_performance_monitor_thread: update_performance_data
\* rewrites PERFORMANCE_DATA_FILE unless something in it raised
PerformanceIteration(f) ==
  /\ loops["performance"].alive
  /\ loops["performance"].iterations < MaxIterations
  /\ loops' = AfterIteration("performance", f)
  /\ IF f = "none"
     THEN \E perf \in PerformanceFiles \ {<< >>} : performance_data' = perf
     ELSE UNCHANGED performance_data
  /\ UNCHANGED <<active_provider, health_status, health_history,
                 current_performance, last_failover_time, events, now, last,
                 tpc, tloc, mpc, mloc, spc, sloc, inflight>>
  /\ CountersUnchanged

\* one iteration of run_failover_check_thread in which f happened: an
\* unreadable performance file gives {}, an unreadable health store makes
\* the tick return False, a failed write of ACTIVE_PROVIDER_FILE (with the
\* outcome w) or of the event row is logged and the tick goes on
FailoverIteration(f, w) ==
  /\ loops["failover"].alive
  /\ nTicks < MaxTicks
  /\ nTicks' = nTicks + 1
  /\ (f = "save_active") = (w # "written")
  /\ LET perf == IF f = "read_performance" THEN << >> ELSE performance_data
         hs   == IF f = "read_health" THEN << >> ELSE health_status
         r    == CheckAndFailover(active_provider, hs, health_history, perf,
                                  last_failover_time, events, now)
         moved == r.active_provider # active_provider
     IN  /\ f \in {"save_active", "record_commit"} => moved
         /\ moved => Len(events) < MaxEvents \/ f = "record_commit"
         /\ current_performance' = perf
         /\ active_provider' = IF moved
                               THEN SaveActiveProvider(active_provider,
                                                       r.active_provider, w)
                               ELSE active_provider
         /\ health_history' = r.health_history
         /\ last_failover_time' = r.last_failover_time
         /\ events' = IF f = "record_commit" THEN events ELSE r.events
         /\ last' = [op |-> "tick", ret |-> PyBool(r.ret)]
  /\ loops' = AfterIteration("failover", f)
  /\ UNCHANGED <<health_status, performance_data, now, nProbes, nSims,
                 tpc, tloc, mpc, mloc, spc, sloc, inflight>>

\* manual_failover(to_provider) with the outcome w of the write of
\* ACTIVE_PROVIDER_FILE
ManualFailoverWrite(to_provider, w) ==
  /\ ~ManualIsNoop(active_provider, to_provider)
  /\ Len(events) < MaxEvents
  /\ LET r == ManualApply(active_provider, to_provider, health_status,
                          health_history, current_performance,
                          last_failover_time, events, now)
     IN  /\ last' = [op |-> "manual", ret |-> "True"]
         /\ active_provider' = SaveActiveProvider(active_provider,
                                                  r.active_provider, w)
         /\ last_failover_time' = r.last_failover_time
         /\ events' = r.events
  /\ UNCHANGED <<health_status, health_history, performance_data,
                 current_performance, now>>
  /\ CountersUnchanged
  /\ CallsUnchanged

\* a call of get_active_provider()
GetActiveCall ==
  /\ last' = [op |-> "get_active_provider", ret |-> active_provider]
  /\ ReadOnly

\* the three monitoring threads, with calls to the network, the database and
\* the file system that can fail
NextFaults ==
  \/ \E f \in Faults("health") : HealthIteration(f)
  \/ \E f \in Faults("performance") : PerformanceIteration(f)
  \/ \E f \in Faults("failover"), w \in FileWrites : FailoverIteration(f, w)

SpecFaults == InitFresh /\ [][NextFaults]_vars

\* the failover loop and a caller of manual_failover with writes that can
\* fail, and readers of the active provider
NextWrites ==
  \/ HealthProbes
  \/ \E f \in Faults("failover"), w \in FileWrites : FailoverIteration(f, w)
  \/ \E to_provider \in Providers, w \in FileWrites :
       ManualFailoverWrite(to_provider, w)
  \/ GetActiveCall

SpecWrites == InitFresh /\ [][NextWrites]_vars

(* ------------------------------ the history window --------------------- *)

\* the histories update_health_history is applied to: the short ones, and
\* short ones followed by equal samples up to a length around the capacity
\* (a history grows past the capacity when a disaster scenario appends its
\* failures and the tick that follows cannot read the health store)
WindowHistories ==
  HistoriesUpTo(MaxLen) \cup
  {pre \o [i \in 1..(n - Len(pre)) |-> b] :
     pre \in HistoriesUpTo(MaxLen), b \in BOOLEAN,
     n \in (HistoryCap - 1)..(HistoryCap + consecutive_failures_threshold + 1)}

\* a manager whose providers all have the same history, and some health map
InitWindow ==
  /\ active_provider = DEFAULT_PROVIDER
  /\ health_status \in HealthMaps \ {<< >>}
  /\ \E h \in WindowHistories : health_history = [p \in Providers |-> h]
  /\ performance_data = [p \in Providers |-> PerfGood]
  /\ current_performance = performance_data
  /\ last_failover_time = [p \in Providers |-> NoTime]
  /\ events = << >>
  /\ now = 0
  /\ last = [op |-> "init", ret |-> "None"]
  /\ nTicks = 0
  /\ nProbes = 0
  /\ nSims = 0
  /\ tpc = "idle"
  /\ tloc = Idle
  /\ mpc = "idle"
  /\ mloc = MIdle
  /\ spc = "idle"
  /\ sloc = SIdle
  /\ inflight = << >>
  /\ loops = [l \in Loops |-> LoopStarted]

\* a call of update_health_history(get_current_health_status()), of which
\* check_and_failover makes one per tick
UpdateCall ==
  /\ nTicks < MaxTicks
  /\ nTicks' = nTicks + 1
  /\ health_history' = update_health_history(health_history, health_status)
  /\ last' = [op |-> "update_health_history", ret |-> "None"]
  /\ UNCHANGED <<active_provider, health_status, performance_data,
                 current_performance, last_failover_time, events, now,
                 nProbes, nSims>>
  /\ CallsUnchanged

\* update_health_history called again and again, on the health maps the
\* probe thread leaves
NextWindow ==
  \/ UpdateCall
  \/ HealthProbes

SpecWindow == InitWindow /\ [][NextWindow]_vars

(* ------------------------------ the loop that runs for ever ------------ *)

\* one iteration of run_failover_check_thread in a loop that never ends:
\* LoopTick without its bounds; the tick counter stops at MaxTicks and the
\* state keeps the newest MaxEvents events of the log, which no tick reads
TickForever ==
  /\ nTicks' = IF nTicks < MaxTicks THEN nTicks + 1 ELSE nTicks
  /\ \E r \in {CheckAndFailover(active_provider, health_status, health_history,
                                 performance_data, last_failover_time, events, now)} :
       /\ current_performance' = performance_data
       /\ active_provider' = r.active_provider
       /\ health_history' = r.health_history
       /\ last_failover_time' = r.last_failover_time
       /\ events' = LastN(r.events, MaxEvents)
       /\ last' = [op |-> "tick", ret |-> PyBool(r.ret)]
  /\ UNCHANGED <<health_status, performance_data, now, nProbes, nSims>>
  /\ CallsUnchanged

\* a manager at the moment from which the health map stays as it is: any
\* provider active, any health map, one of the initial performance files,
\* and every provider with the same history of no or one sample
InitLive ==
  /\ active_provider \in Providers
  /\ health_status \in [Providers -> BOOLEAN]
  /\ \E h \in {<< >>, <<TRUE>>, <<FALSE>>} :
       health_history = [p \in Providers |-> h]
  /\ performance_data \in InitialPerformance
  /\ current_performance = performance_data
  /\ last_failover_time = [p \in Providers |-> NoTime]
  /\ events = << >>
  /\ now = 0
  /\ last = [op |-> "init", ret |-> "None"]
  /\ nTicks = 0
  /\ nProbes = 0
  /\ nSims = 0
  /\ tpc = "idle"
  /\ tloc = Idle
  /\ mpc = "idle"
  /\ mloc = MIdle
  /\ spc = "idle"
  /\ sloc = SIdle
  /\ inflight = << >>
  /\ loops = [l \in Loops |-> LoopStarted]

\* the failover loop, with a health map that stays as it is
NextLive == TickForever

\* 'while True: ...; time.sleep(interval)' in a thread of its own: an
\* iteration that can run does run
SpecLive == InitLive /\ [][NextLive]_vars /\ WF_vars(TickForever)

\* a manager at the moment from which the health map and the performance
\* file stay as they are: any provider active, any health map, every
\* provider in good shape, every provider slow, or no performance data,
\* and every provider with the same history of no or one sample
InitSteady ==
  /\ active_provider \in Providers
  /\ health_status \in [Providers -> BOOLEAN]
  /\ \E h \in {<< >>, <<TRUE>>, <<FALSE>>} :
       health_history = [p \in Providers |-> h]
  /\ performance_data \in PerformanceFiles
  /\ current_performance = performance_data
  /\ last_failover_time = [p \in Providers |-> NoTime]
  /\ events = << >>
  /\ now = 0
  /\ last = [op |-> "init", ret |-> "None"]
  /\ nTicks = 0
  /\ nProbes = 0
  /\ nSims = 0
  /\ tpc = "idle"
  /\ tloc = Idle
  /\ mpc = "idle"
  /\ mloc = MIdle
  /\ spc = "idle"
  /\ sloc = SIdle
  /\ inflight = << >>
  /\ loops = [l \in Loops |-> LoopStarted]

\* the failover loop, with inputs that stay as they are
NextSteady == TickForever

\* the loop of run_failover_check_thread scheduled fairly, on constant
\* health samples and performance snapshots
SpecSteady == InitSteady /\ [][NextSteady]_vars /\ WF_vars(TickForever)

(* ------------------------------ the basic manager ---------------------- *)

\* config.FAILOVER_ORDER: where to go next if a provider fails
FAILOVER_ORDER ==
  [p \in Providers |->
     CASE p = "aws"   -> "azure"
       [] p = "azure" -> "gcp"
       [] p = "gcp"   -> "aws"]

\* FAILOVER_ORDER.get(provider, DEFAULT_PROVIDER)
NextInOrder(provider) ==
  IF provider \in DOMAIN FAILOVER_ORDER
  THEN FAILOVER_ORDER[provider]
  ELSE DEFAULT_PROVIDER

\* max_attempts = len(FAILOVER_ORDER)
max_attempts == Cardinality(DOMAIN FAILOVER_ORDER)

\* the event FailoverManager._log_failover_event records: no details, and
\* 'system' for a failover that is not manual
BasicFailoverEvent(from, to, reason, is_manual, t) ==
  [timestamp |-> t, from_provider |-> from, to_provider |-> to,
   reason |-> reason, is_manual |-> is_manual, scores |-> << >>,
   triggered_by |-> IF is_manual THEN "user" ELSE "system"]

RECURSIVE FindHealthy(_, _, _)
\* the while loop of FailoverManager._perform_failover: the provider it
\* stops at, or None when the attempts run out
FindHealthy(next_provider, hs, attempts) ==
  IF attempts >= max_attempts THEN NoProvider
  ELSE IF next_provider \in DOMAIN hs /\ hs[next_provider]
       THEN next_provider
       ELSE FindHealthy(NextInOrder(next_provider), hs, attempts + 1)

\* FailoverManager._perform_failover(failed_provider, health_status); the
\* reason is the probe's error text or status code when the sample has one,
\* which the samples here do not carry
PerformFailover(failed_provider, hs, ap, ev, t) ==
  LET next_provider == FindHealthy(NextInOrder(failed_provider), hs, 0)
  IN  IF next_provider # NoProvider
      THEN [active_provider |-> next_provider,
            events |-> Append(ev, BasicFailoverEvent(failed_provider, next_provider,
                                                     "Provider unavailable", FALSE, t)),
            ret |-> TRUE]
      ELSE [active_provider |-> ap, events |-> ev, ret |-> FALSE]

\* FailoverManager.check_and_failover: True whenever the active provider's
\* sample is unhealthy, whatever _perform_failover returned
BasicCheckAndFailover(ap, hs, ev, t) ==
  IF hs = << >>
  THEN [active_provider |-> ap, events |-> ev, ret |-> FALSE]
  ELSE IF ap \in DOMAIN hs /\ ~hs[ap]
       THEN LET r == PerformFailover(ap, hs, ap, ev, t)
            IN  [active_provider |-> r.active_provider, events |-> r.events,
                 ret |-> TRUE]
       ELSE [active_provider |-> ap, events |-> ev, ret |-> FALSE]

\* one iteration of FailoverManager.run_failover_check_thread
BasicTick ==
  /\ nTicks < MaxTicks
  /\ Len(events) < MaxEvents
  /\ nTicks' = nTicks + 1
  /\ LET r == BasicCheckAndFailover(active_provider, health_status, events, now)
     IN  /\ active_provider' = r.active_provider
         /\ events' = r.events
         /\ last' = [op |-> "basic_tick", ret |-> PyBool(r.ret)]
  /\ UNCHANGED <<health_status, health_history, performance_data,
                 current_performance, last_failover_time, now, nProbes, nSims>>
  /\ CallsUnchanged

\* a basic manager at any moment: any provider in the active provider file
\* and any health map
InitBasic ==
  /\ active_provider \in Providers
  /\ health_status \in HealthMaps
  /\ health_history = [p \in Providers |-> << >>]
  /\ performance_data = [p \in Providers |-> PerfGood]
  /\ current_performance = performance_data
  /\ last_failover_time = [p \in Providers |-> NoTime]
  /\ events = << >>
  /\ now = 0
  /\ last = [op |-> "init", ret |-> "None"]
  /\ nTicks = 0
  /\ nProbes = 0
  /\ nSims = 0
  /\ tpc = "idle"
  /\ tloc = Idle
  /\ mpc = "idle"
  /\ mloc = MIdle
  /\ spc = "idle"
  /\ sloc = SIdle
  /\ inflight = << >>
  /\ loops = [l \in Loops |-> LoopStarted]

\* the basic failover loop and the probe thread
NextBasic ==
  \/ HealthProbes
  \/ BasicTick

SpecBasic == InitBasic /\ [][NextBasic]_vars

(* ------------------------------ claims -------------------------------- *)

\* the health history after the tick's update, as the triggers see it
TickHistory == update_health_history(health_history, health_status)

\* the triggers of a loop tick taken in the current state
TickTriggers ==
  Triggers(active_provider, health_status, TickHistory, performance_data,
           last_failover_time, now)

\* a provider whose current sample is healthy
Healthy(p) == p \in DOMAIN health_status /\ health_status[p]

\* the newest event of the log
LastEvent == events[Len(events)]

\* C1: in every reachable state, after any sequence of failover ticks, manual
\* failovers and disaster simulations, every provider's health history holds
\* at most 10 samples.
C1_HistoryAtMostTen ==
  \A p \in Providers : Len(health_history[p]) <= HistoryCap

\* C2: the active provider is always a member of the configured provider set,
\* and a manual_failover whose target is not a known provider id is rejected
\* before any state is mutated (active provider, cooldown timestamps and
\* event log unchanged).
C2_ActiveAlwaysKnown ==
  [][/\ active_provider' \in Providers
     /\ \A t \in Targets \ Providers :
          ManualFailover(t) =>
            UNCHANGED <<active_provider, last_failover_time, events>>]_vars

\* C3: no failover event is ever logged whose fromProvider equals its
\* toProvider, for automatic and manual failovers alike and under any
\* interleaving of ticks and manual calls.
C3_NoSelfFailover ==
  \A i \in 1..Len(events) : events[i].from_provider # events[i].to_provider

\* C3 witness: the log holds an automatic and a manual failover
C3_Witness ==
  /\ \E i \in 1..Len(events) : events[i].is_manual
  /\ \E i \in 1..Len(events) : ~events[i].is_manual

\* C4: a failover tick and a manual failover call never interleave: no call
\* writes on the strength of an active provider that another call has
\* changed since the call read it.
C4_NoInterleaving ==
  /\ tpc = "perform" => tloc.cur = active_provider
  /\ mpc = "write" => mloc.cur = active_provider

\* C5: when a trigger fires on a tick but every provider other than the
\* active one is currently unhealthy, the decision fails: the active
\* provider, the cooldown timestamps and the event log stay unchanged and the
\* tick reports failure; no unhealthy provider is chosen as the target.
C5_NoTargetFails ==
  [][(/\ LoopTick
      /\ health_status # << >>
      /\ TickTriggers.needs_failover
      /\ \A p \in Providers \ {active_provider} : ~Healthy(p))
     => /\ UNCHANGED <<active_provider, last_failover_time, events>>
        /\ last'.ret = "False"]_vars

\* a history that ends in exactly three unhealthy samples
EndsInThreeFailures(h) ==
  /\ Len(h) >= 3
  /\ \A i \in (Len(h) - 2)..Len(h) : ~h[i]
  /\ Len(h) >= 4 => h[Len(h) - 3]

C7_DegradedButHealthy ==
  [][(/\ LoopTick
      /\ Healthy(active_provider)
      /\ active_provider \in DOMAIN performance_data
      /\ performance_data[active_provider].rt > 500)
     => /\ detect_performance_degradation(active_provider, performance_data)
        /\ active_provider' # active_provider
        /\ active_provider' \in Providers
        /\ events' # events
        /\ LastEvent'.from_provider = active_provider
        /\ LastEvent'.reason = "Significant performance degradation detected"
        /\ last'.ret = "True"]_vars

\* C7 witness: a tick has just failed over for performance degradation away
\* from a provider that is healthy and answers in 0.8 s with no other
\* degradation
C7_Witness ==
  /\ last = [op |-> "tick", ret |-> "True"]
  /\ events # << >>
  /\ LastEvent.reason = "Significant performance degradation detected"
  /\ active_provider = LastEvent.to_provider
  /\ Healthy(LastEvent.from_provider)
  /\ LastEvent.from_provider \in DOMAIN current_performance
  /\ current_performance[LastEvent.from_provider] = PerfHighLatency

\* C8: manual_failover with the currently active provider as target is a
\* no-op: it returns false, appends no event and leaves the active provider
\* and the cooldown timestamps unchanged.
C8_ManualToActiveIsNoop ==
  [][\A t \in Targets :
       (ManualFailover(t) /\ t = active_provider)
       => /\ last' = [op |-> "manual", ret |-> "False"]
          /\ UNCHANGED <<active_provider, last_failover_time, events>>]_vars

\* C8 witness: a manual failover has returned false after earlier failovers
C8_Witness ==
  /\ last = [op |-> "manual", ret |-> "False"]
  /\ events # << >>

\* C9: manual_failover to a provider other than the active one succeeds
\* whatever the target's health or score: the target becomes active, the
\* failover time of the previous active provider is set to now, exactly one
\* event from the previous active provider to the target with manual = true
\* and triggeredBy = "user" is appended, and the call returns true.
C9_ManualSucceeds ==
  [][\A t \in Targets :
       (ManualFailover(t) /\ t # active_provider)
       => /\ active_provider' = t
          /\ last_failover_time' =
               IF active_provider \in Providers
               THEN [last_failover_time EXCEPT ![active_provider] = now]
               ELSE last_failover_time
          /\ Len(events') = Len(events) + 1
          /\ SubSeq(events', 1, Len(events)) = events
          /\ LastEvent'.from_provider = active_provider
          /\ LastEvent'.to_provider = t
          /\ LastEvent'.is_manual
          /\ LastEvent'.triggered_by = "user"
          /\ last' = [op |-> "manual", ret |-> "True"]]_vars

\* C9 witness: a manual failover to an unhealthy provider has returned true
\* at a time after the start
C9_Witness ==
  /\ last = [op |-> "manual", ret |-> "True"]
  /\ events # << >>
  /\ LastEvent.is_manual
  /\ active_provider \in Providers
  /\ ~Healthy(active_provider)
  /\ LastEvent.from_provider \in Providers
  /\ now > 0
  /\ last_failover_time[LastEvent.from_provider] = now

\* the score of provider p at the decision of a loop tick taken now
DecisionScore(p) ==
  calculate_provider_score(p, health_status, TickHistory, performance_data,
                           last_failover_time, now)

\* C10: a successful automatic failover on a tick sets the active provider
\* to the selected target, sets the failover time of the previously active
\* provider to now and appends exactly one event from the previously active
\* provider to the target with manual = false; the target is a
\* highest-scoring provider among all providers other than the active one.
C10_AutomaticFailover ==
  [][(LoopTick /\ active_provider' # active_provider)
     => /\ active_provider' \in Providers \ {active_provider}
        /\ \A q \in Providers \ {active_provider} :
             ~ScoreGt(DecisionScore(q), DecisionScore(active_provider'))
        /\ last_failover_time' =
             IF active_provider \in Providers
             THEN [last_failover_time EXCEPT ![active_provider] = now]
             ELSE last_failover_time
        /\ Len(events') = Len(events) + 1
        /\ SubSeq(events', 1, Len(events)) = events
        /\ LastEvent'.from_provider = active_provider
        /\ LastEvent'.to_provider = active_provider'
        /\ ~LastEvent'.is_manual
        /\ TickTriggers.needs_failover
        /\ LastEvent'.reason = TickTriggers.failover_reason]_vars

\* C10 witness: a tick has just failed over to a provider that is not the
\* first candidate in configuration order, two candidates being healthy
C10_Witness ==
  /\ last = [op |-> "tick", ret |-> "True"]
  /\ events # << >>
  /\ ~LastEvent.is_manual
  /\ active_provider = LastEvent.to_provider
  /\ LastEvent.from_provider = "aws"
  /\ active_provider = "gcp"
  /\ Healthy("azure")
  /\ Healthy("gcp")

\* the consecutive-failure trigger matches on a tick taken now
FailureTriggerMatches ==
  /\ active_provider \in DOMAIN health_status
  /\ ~health_status[active_provider]
  /\ count_consecutive_failures(TickHistory, active_provider)
       >= consecutive_failures_threshold

\* the performance-degradation trigger matches on a tick taken now
DegradationTriggerMatches ==
  detect_performance_degradation(active_provider, performance_data)

\* the providers that make the superior-alternative trigger match on a tick
\* taken now
SuperiorAlternatives ==
  {p \in Providers \ {active_provider} :
     /\ ScoreGt125(DecisionScore(p), DecisionScore(active_provider))
     /\ ScoreGtInt(DecisionScore(p), 60)}

\* the tick appends exactly one event
TickLogsOneEvent ==
  /\ Len(events') = Len(events) + 1
  /\ SubSeq(events', 1, Len(events)) = events

\* C11: on every tick the triggers are checked in the order
\* consecutive-failure, performance-degradation, superior-alternative, and
\* the reason recorded is that of the first trigger that matches; a tick on
\* which none matches records nothing.
C11_TriggerOrder ==
  [][(LoopTick /\ health_status # << >>)
     => IF FailureTriggerMatches
        THEN /\ TickLogsOneEvent
             /\ LastEvent'.reason =
                  "Provider unhealthy for "
                    \o ToString(count_consecutive_failures(TickHistory, active_provider))
                    \o " consecutive checks"
        ELSE IF DegradationTriggerMatches
        THEN /\ TickLogsOneEvent
             /\ LastEvent'.reason = "Significant performance degradation detected"
        ELSE IF SuperiorAlternatives # {}
        THEN /\ TickLogsOneEvent
             /\ \E p \in SuperiorAlternatives :
                  LastEvent'.reason =
                    "Better performing provider (" \o p \o ") available"
        ELSE UNCHANGED events]_vars

\* C11 witness: a tick has logged the consecutive-failure reason for a
\* failover to a healthy provider in good shape that has no recent failover,
\* so the superior-alternative trigger matched on the same tick
C11_Witness ==
  /\ last = [op |-> "tick", ret |-> "True"]
  /\ events # << >>
  /\ LastEvent.reason = "Provider unhealthy for 3 consecutive checks"
  /\ active_provider = LastEvent.to_provider
  /\ Healthy(active_provider)
  /\ current_performance[active_provider] = PerfGood
  /\ last_failover_time[active_provider] = NoTime
  /\ ScoreGtInt(LastEvent.scores[active_provider], 60)

\* the number of trailing unhealthy samples of history h: the longest suffix
\* of h that holds no healthy sample
TrailingUnhealthy(h) ==
  SetMax({k \in 0..Len(h) : \A i \in (Len(h) - k + 1)..Len(h) : ~h[i]})

\* the tick logs the consecutive-failure reason
TickLogsFailureReason ==
  /\ events' # events
  /\ \E n \in 1..HistoryCap :
       LastEvent'.reason = "Provider unhealthy for " \o ToString(n)
                             \o " consecutive checks"

\* C12: count_consecutive_failures(p) is the number of trailing unhealthy
\* samples of p's history, 0 when the history is empty or its newest sample
\* is healthy; on a tick that reads a health map the consecutive-failure
\* trigger fires exactly when this count, taken for the active provider on
\* the history the tick has updated, is at least 3.
C12_ConsecutiveFailures ==
  [][/\ \A p \in Providers :
          (last'.op = "count" /\ CountCall(p)) =>
            /\ last'.ret = ToString(TrailingUnhealthy(health_history[p]))
            /\ (health_history[p] = << >>
                  \/ health_history[p][Len(health_history[p])])
               => last'.ret = "0"
     /\ (LoopTick /\ health_status # << >>)
        => (TickLogsFailureReason
              <=> TrailingUnhealthy(TickHistory[active_provider]) >= 3)]_vars

\* C13: calculate_provider_score returns exactly 0 for a provider whose
\* current health sample is unhealthy or absent from the health map, whatever
\* its history, performance snapshot, cost and cooldown state.
C13_UnhealthyScoresZero ==
  [][\A p \in Providers :
       (~Healthy(p) /\ last'.op = "score" /\ ScoreCall(p))
         => last'.ret = ToString(<<0, 1>>)]_vars

\* C13 witness: a score of 0 has been returned while some provider is
\* unhealthy with healthy samples in its history, a good performance
\* snapshot and a recorded failover
C13_Witness ==
  /\ last = [op |-> "score", ret |-> ToString(<<0, 1>>)]
  /\ \E p \in Providers :
       /\ p \in DOMAIN health_status
       /\ ~health_status[p]
       /\ \E i \in 1..Len(health_history[p]) : health_history[p][i]
       /\ current_performance[p] = PerfGood
       /\ last_failover_time[p] # NoTime

\* cost tables that charge every provider the same
EqualCosts == {[p \in Providers |-> c] : c \in {cost_per_hour[q] : q \in Providers}}

\* scores a and b are the same number
ScoreEq(a, b) == a[1] * b[2] = b[1] * a[2]

\* every provider has the same current health, history, performance
\* snapshot and cooldown state
IdenticalInputs ==
  /\ DOMAIN health_status = Providers
  /\ DOMAIN current_performance = Providers
  /\ \A p, q \in Providers :
       /\ health_status[p] = health_status[q]
       /\ health_history[p] = health_history[q]
       /\ current_performance[p] = current_performance[q]
       /\ last_failover_time[p] = last_failover_time[q]

\* C14: symmetry law: with identical current health, health history,
\* performance snapshot, cost and cooldown state, calculate_provider_score
\* returns the same score for all three providers.
C14_Symmetry ==
  IdenticalInputs
  => \A costs \in EqualCosts : \A p, q \in Providers :
       ScoreEq(ScoreWithCosts(costs, p, health_status, health_history,
                              current_performance, last_failover_time, now),
               ScoreWithCosts(costs, q, health_status, health_history,
                              current_performance, last_failover_time, now))

\* the snapshot of p is at or within every threshold, or past the CPU
\* threshold alone, or past the memory threshold alone
AtThresholds(p) ==
  /\ p \in DOMAIN current_performance
  /\ current_performance[p].rt = 500
  /\ current_performance[p].sr = 950
  /\ \/ current_performance[p].cpu = 85 /\ current_performance[p].mem = 80
     \/ current_performance[p].cpu = 86 /\ current_performance[p].mem = 80
     \/ current_performance[p].cpu = 85 /\ current_performance[p].mem = 81

\* C15: detect_performance_degradation(p) is true exactly when p has a
\* performance snapshot and its response time is above 0.5 s, or its success
\* rate is below 95 %, or its CPU is above 85 % and its memory above 80 %;
\* values exactly at 0.5, 95, 85 and 80 do not trigger, nor does high CPU
\* alone or high memory alone.
C15_DegradationExact ==
  [][\A p \in Providers :
       (last'.op = "detect" /\ DetectCall(p)) =>
         /\ last'.ret = "True"
              <=> /\ p \in DOMAIN current_performance
                  /\ \/ current_performance[p].rt > 500
                     \/ current_performance[p].sr < 950
                     \/ /\ current_performance[p].cpu > 85
                        /\ current_performance[p].mem > 80
         /\ last'.ret \in {"True", "False"}
         /\ AtThresholds(p) => last'.ret = "False"]_vars

\* a call has answered False for a snapshot with the response time and the
\* success rate exactly at their thresholds and the CPU alone above its own
C15_Witness ==
  /\ last = [op |-> "detect", ret |-> "False"]
  /\ \A p \in Providers :
       /\ AtThresholds(p)
       /\ current_performance[p].cpu = 86

\* the reasons the superior-alternative trigger records
BetterReasons ==
  {"Better performing provider (" \o p \o ") available" : p \in Providers}

\* the tick records the superior-alternative trigger
TickLogsBetterReason ==
  /\ TickLogsOneEvent
  /\ LastEvent'.reason \in BetterReasons

\* C16: on a tick on which neither earlier trigger matches, the
\* superior-alternative trigger fires exactly when some provider other than
\* the active one scores more than 1.25 times the active provider's score
\* and more than 60; it never fires for alternatives that all score at most
\* 60, however low the active provider's score.
C16_SuperiorAlternative ==
  [][(LoopTick /\ health_status # << >>)
     => /\ (~FailureTriggerMatches /\ ~DegradationTriggerMatches)
           => (TickLogsBetterReason
                 <=> \E p \in Providers \ {active_provider} :
                       /\ ScoreGt125(DecisionScore(p), DecisionScore(active_provider))
                       /\ ScoreGtInt(DecisionScore(p), 60))
        /\ TickLogsBetterReason
           => /\ ~FailureTriggerMatches
              /\ ~DegradationTriggerMatches
        /\ (\A p \in Providers \ {active_provider} :
              ~ScoreGtInt(DecisionScore(p), 60))
           => ~TickLogsBetterReason]_vars

\* C16 witness: a tick has left the active provider, which scores 0, in
\* place although a healthy alternative scores above 0 and at most 60
C16_Witness ==
  /\ last = [op |-> "tick", ret |-> "False"]
  /\ ~Healthy(active_provider)
  /\ \E p \in Providers \ {active_provider} :
       /\ Healthy(p)
       /\ ScoreGtInt(calculate_provider_score(p, health_status, health_history,
                       current_performance, last_failover_time, now), 0)
       /\ ~ScoreGtInt(calculate_provider_score(p, health_status, health_history,
                        current_performance, last_failover_time, now), 60)

\* the score of provider p as a call made now computes it
ScoreNow(p) ==
  calculate_provider_score(p, health_status, health_history,
                           current_performance, last_failover_time, now)

\* C17: select_best_provider returns a provider that is not excluded and
\* has the highest score among those, and when several of them share that
\* score it returns the one with the lowest priority rank of the provider
\* configuration; the target of a tick's failover is chosen the same way.
C17_TieBreak ==
  [][/\ last'.op = "select"
        => LET score == [p \in Providers |-> ScoreNow(p)]
           IN  \A ex \in {active_provider, NoProvider} :
                 SelectCall(ex) =>
                   /\ last'.ret \in Providers \ {ex}
                   /\ \A q \in Providers \ {ex} :
                        /\ ~ScoreGt(score[q], score[last'.ret])
                        /\ ScoreEq(score[q], score[last'.ret])
                           => priority[last'.ret] <= priority[q]
     /\ (LoopTick /\ active_provider' # active_provider)
        => \A q \in Providers \ {active_provider} :
             ScoreEq(DecisionScore(q), DecisionScore(active_provider'))
             => priority[active_provider'] <= priority[q]]_vars

\* C17 witness: with no provider healthy, so that all score 0, a call has
\* returned azure: aws, the active provider, was excluded and azure and gcp
\* shared the highest score
C17_Witness ==
  /\ last = [op |-> "select", ret |-> "azure"]
  /\ active_provider = "aws"
  /\ \A p \in Providers : ~Healthy(p)
  /\ ScoreEq(ScoreNow("azure"), ScoreNow("gcp"))

\* the score provider p would have now had no failover ever been recorded
ScoreWithoutCooldown(p) ==
  calculate_provider_score(p, health_status, health_history, current_performance,
                           [q \in DOMAIN last_failover_time |-> NoTime], now)

\* the failover events that left provider p
FailoversAwayFrom(p) ==
  {i \in 1..Len(events) : events[i].from_provider = p}

\* provider p was failed away from fewer than 60 seconds ago
RecentlyFailedAwayFrom(p) ==
  \E i \in FailoversAwayFrom(p) : now - events[i].timestamp < 60

\* C18: the score of a healthy provider p is 15 points below what it would
\* be without cooldown exactly while p has been failed away from fewer than
\* 60 seconds ago; for a provider never failed away from, or failed away from
\* 60 seconds ago or more, it carries no penalty.
C18_CooldownPenalty ==
  \A p \in Providers :
    Healthy(p) =>
      LET with    == ScoreNow(p)
          without == ScoreWithoutCooldown(p)
      IN  /\ with[2] = without[2]
          /\ IF RecentlyFailedAwayFrom(p)
             THEN with[1] = without[1] - 15 * 1000 * with[2]
             ELSE with[1] = without[1]

\* C18 witness: a healthy provider was failed away from exactly 60 seconds
\* ago and its score carries no penalty any more
C18_Witness ==
  \E p \in Providers :
    /\ Healthy(p)
    /\ \E i \in FailoversAwayFrom(p) : now - events[i].timestamp = 60
    /\ ~RecentlyFailedAwayFrom(p)
    /\ ScoreEq(ScoreNow(p), ScoreWithoutCooldown(p))

C21_DegradationRestored ==
  [][/\ (DegradationBegin /\ spc' = "degrade")
        => /\ sloc'.cur = active_provider
           /\ sloc'.original = current_performance[active_provider]
     /\ (spc # "idle" /\ spc' # "idle") => UNCHANGED <<sloc.cur, sloc.original>>
     /\ DegradationRestore
        => /\ sloc.cur \in DOMAIN current_performance'
           /\ current_performance'[sloc.cur] = sloc.original
           /\ last'.op = "simulate"
           /\ last'.ret \in {"True", "False"}]_vars

\* C21 witness: a simulation has returned with the good snapshot of the
\* active provider put back into a map whose other entries are slow: the
\* failover loop replaced the map between the copy and its restoration
C21_Witness ==
  /\ last.op = "simulate"
  /\ last.ret \in {"True", "False"}
  /\ spc = "idle"
  /\ nTicks > 0
  /\ DOMAIN current_performance = Providers
  /\ current_performance[active_provider] = PerfGood
  /\ \A q \in Providers \ {active_provider} : current_performance[q] = PerfSlow

\* C22: simulate_disaster_scenario("provider_failure") appends
\* consecutive_failures_threshold + 1 unhealthy samples to the active
\* provider's history and runs one tick on it, and whenever some other
\* provider is healthy that tick fails over away from the active provider,
\* whatever the active provider's own current health sample is.
C22_ProviderFailureFailsOver ==
  [][\A f \in Providers :
       (/\ last'.op = "simulate"
        /\ SimulateDisaster("provider_failure", "provider_failure", f)
        /\ active_provider \in Providers
        /\ \E q \in Providers \ {active_provider} : Healthy(q))
       => /\ health_history' =
               update_health_history(
                 [health_history EXCEPT ![active_provider] =
                    @ \o <<FALSE, FALSE, FALSE, FALSE>>],
                 health_status)
          /\ active_provider' # active_provider
          /\ last'.ret = "True"]_vars

\* the score of provider p on a tick the manager would run on its own state
PlainScore(p) ==
  calculate_provider_score(p, health_status, TickHistory, current_performance,
                           last_failover_time, now)

\* the active provider is in a shape no tick would leave: healthy, not
\* degraded and with no superior alternative
ActiveIsSettled ==
  /\ Healthy(active_provider)
  /\ ~(/\ active_provider \in DOMAIN current_performance
       /\ \/ current_performance[active_provider].rt > 500
          \/ current_performance[active_provider].sr < 950
          \/ /\ current_performance[active_provider].cpu > 85
             /\ current_performance[active_provider].mem > 80)
  /\ \A q \in Providers \ {active_provider} :
       ~(/\ ScoreGt125(PlainScore(q), PlainScore(active_provider))
         /\ ScoreGtInt(PlainScore(q), 60))

\* what a network outage simulated on provider f leaves behind when it is
\* harmless: failure samples in the history of f alone, the active provider
\* and the event log as they were, False returned
OutageIsHarmless(f) ==
  /\ f # active_provider
  /\ \A q \in Providers \ {f} : health_history'[q] = TickHistory[q]
  /\ health_history'[f] =
       LastN(health_history[f] \o <<FALSE, FALSE, FALSE, FALSE>>
               \o (IF f \in DOMAIN health_status THEN <<health_status[f]>> ELSE << >>),
             IF f \in DOMAIN health_status THEN HistoryCap
             ELSE Len(health_history[f]) + 4)
  /\ active_provider' = active_provider
  /\ events' = events
  /\ last'.ret = "False"

C24_ScenariosAreScoped ==
  [][\A scenario \in Scenarios \cup {"random"}, sc \in Scenarios, f \in Providers :
       (last'.op = "simulate" /\ SimulateDisaster(scenario, sc, f))
       => /\ \A p \in Providers :
               health_history'[p] \in {health_history[p], TickHistory[p]}
          /\ current_performance' = current_performance]_vars

\* the entry d of a returned list shows the stored event e
ShowsEvent(d, e) ==
  /\ d.from_provider = e.from_provider
  /\ d.to_provider = e.to_provider
  /\ d.reason = e.reason
  /\ d.is_manual = e.is_manual

\* C25: event log round trip: when record_failover_event(e) has returned
\* True, every list get_recent_failover_events(1) can return holds exactly
\* one entry and that entry is e; for every limit the list has at most limit
\* entries and is ordered newest first; and a successful record leaves the
\* rows stored before it as they were.
C25_EventLogRoundTrip ==
  [][\A c \in Recorders :
       (last'.op = "record" /\ RecordCommit(c))
       => /\ \A r \in get_recent_failover_events(events', 1) :
               Len(r) = 1 /\ ShowsEvent(r[1], inflight[c])
          /\ \A limit \in 0..MaxLog :
               \A r \in get_recent_failover_events(events', limit) :
                 /\ Len(r) <= limit
                 /\ \A i \in 1..(Len(r) - 1) :
                      r[i].occurred_at >= r[i + 1].occurred_at
          /\ SubSeq(events', 1, Len(events)) = events]_vars

\* C26: a failed write of the active-provider record does not undo the
\* failover: the tick or manual_failover call returns True without raising,
\* and what get_active_provider and the next tick read as the active
\* provider is the failover target.
C26_DecisionStandsOnWriteFailure ==
  [][/\ \A f \in Faults("failover"), w \in FileWrites \ {"written"} :
          (last'.op = "tick" /\ FailoverIteration(f, w))
          => /\ last'.ret = "True"
             /\ active_provider' =
                  CheckAndFailover(active_provider, health_status, health_history,
                                   performance_data, last_failover_time, events,
                                   now).active_provider
     /\ \A to_provider \in Providers, w \in FileWrites \ {"written"} :
          (last'.op = "manual" /\ ManualFailoverWrite(to_provider, w))
          => /\ last'.ret = "True"
             /\ active_provider' = to_provider]_vars

\* C27: no error raised inside one iteration of a monitoring loop ends that
\* loop: whichever call of an iteration of the health probe loop, the
\* performance refresh loop or the failover tick loop raises, the thread is
\* still running afterwards and goes on to its next iteration.
C27_LoopsSurviveErrors ==
  [][\A l \in Loops :
       loops'[l] # loops[l]
       => /\ loops'[l].alive
          /\ loops'[l].iterations = loops[l].iterations + 1]_vars

\* the history h with the sample s added at the end
WithSample(h, s) == [i \in 1..(Len(h) + 1) |-> IF i <= Len(h) THEN h[i] ELSE s]

\* C28: the health history is a sliding window in arrival order: a call of
\* update_health_history turns the history h of every provider with a sample
\* s in the health map into the last 10 elements of h followed by s: not
\* more than 10 samples, s the newest one, the samples before it in their
\* old order, and only the oldest ones gone; the history of a provider
\* without a sample is left alone.
C28_SlidingWindow ==
  [][(last'.op = "update_health_history" /\ UpdateCall)
     => \A p \in Providers :
          LET h    == health_history[p]
              new  == health_history'[p]
              all  == WithSample(h, health_status[p])
              kept == IF Len(all) > 10 THEN 10 ELSE Len(all)
          IN  IF p \in DOMAIN health_status
              THEN /\ Len(new) = kept
                   /\ new[Len(new)] = health_status[p]
                   /\ \A i \in 1..kept : new[i] = all[Len(all) - kept + i]
              ELSE new = h]_vars

\* two calls in a row on a history that was at least 9 samples long: the
\* second one pushed out a sample, and the unhealthy sample that is now the
\* oldest was not the oldest before
C28_Witness ==
  /\ last.op = "update_health_history"
  /\ nTicks >= 2
  /\ \E p \in DOMAIN health_status :
       /\ Len(health_history[p]) = 10
       /\ ~health_history[p][1]
       /\ health_history[p][2]
       /\ health_history[p][10] = health_status[p]

\* provider p has an unhealthy sample in the health map and some other
\* provider a healthy one
UnhealthyWithAlternative(p) ==
  /\ p \in DOMAIN health_status
  /\ ~health_status[p]
  /\ \E q \in DOMAIN health_status : q # p /\ health_status[q]

\* the active provider is not p and has a healthy sample
MovedToHealthy(p) ==
  /\ active_provider # p
  /\ active_provider \in DOMAIN health_status
  /\ health_status[active_provider]

\* the active provider has a healthy sample
ActiveIsHealthy ==
  active_provider \in DOMAIN health_status /\ health_status[active_provider]

\* C29: liveness: when the health map stays as it is, with an unhealthy
\* sample of the active provider and a healthy sample of another provider,
\* and the failover tick is scheduled fairly, then eventually the active
\* provider is one with a healthy sample, hence a different one; and the
\* tick that sees the active
\* provider p unhealthy for the third time in a row (two unhealthy samples
\* of p end its history already) is at the latest the one that makes the
\* active provider a different, healthy one.
C29_FailoverLiveness ==
  /\ UnhealthyWithAlternative(active_provider) ~> ActiveIsHealthy
  /\ [][\A p \in Providers :
          (/\ last'.op = "tick"
           /\ active_provider = p
           /\ UnhealthyWithAlternative(p)
           /\ count_consecutive_failures(health_history, p) >= 2
           /\ TickForever)
          => MovedToHealthy(p)']_vars

\* a tick has just moved the active provider away from a provider it saw
\* unhealthy three times in a row, to a provider with a healthy sample
C29_Witness ==
  /\ last = [op |-> "tick", ret |-> "True"]
  /\ events # << >>
  /\ LET e == events[Len(events)]
     IN  /\ e.reason = "Provider unhealthy for 3 consecutive checks"
         /\ e.to_provider = active_provider
         /\ MovedToHealthy(e.from_provider)
         /\ UnhealthyWithAlternative(e.from_provider)

\* C30: after a failover away from provider p at time t, no automatic
\* failover selects p as its target before t + recovery_time_threshold: a
\* tick that changes the active provider changes it to a provider that was
\* never failed away from, or was at least 60 seconds ago.
C30_WaitsOutRecoveryTime ==
  [][(last'.op = "tick" /\ LoopTick /\ active_provider' # active_provider)
     => \A p \in Providers :
          active_provider' = p
          => \/ last_failover_time[p] = NoTime
             \/ now - last_failover_time[p] >= recovery_time_threshold]_vars

\* C31: simulate_disaster_scenario returns True if and only if the tick it
\* ran changed the active provider: a call that returns False, whatever the
\* scenario, leaves the active provider and the event log as they were, and
\* a call that returns True has changed the active provider.
C31_ResultTellsFailover ==
  [][\A scenario \in Scenarios \cup {"random"}, sc \in Scenarios, f \in Providers :
       (last'.op = "simulate" /\ SimulateDisaster(scenario, sc, f))
       => /\ last'.ret \in {"True", "False"}
          /\ (last'.ret = "True") = (active_provider' # active_provider)
          /\ last'.ret = "False" => events' = events]_vars

\* the unhealthy samples in the history h
UnhealthySamples(h) == Cardinality({i \in 1..Len(h) : ~h[i]})

\* C32: each health sample produced by a probe enters a provider's history
\* at most once, however many ticks run between two probes: the history of a
\* provider never holds more unhealthy samples than there were iterations of
\* the probe loop (the status file starts with every provider healthy, and
\* every iteration probes each provider once).
C32_SampleEntersOnce ==
  \A p \in Providers :
    UnhealthySamples(health_history[p]) <= loops["health"].iterations

\* C33: an unhealthy reading of the active provider causes a failover only
\* once its consecutive-failure count has reached 3: a tick on which the
\* newest sample of the active provider is unhealthy, its consecutive-failure
\* count (the new sample included) is below 3 and its performance snapshot
\* is not degraded leaves the active provider unchanged.
C33_UnhealthyWaitsForThreshold ==
  [][(/\ last'.op = "tick"
      /\ active_provider \in DOMAIN health_status
      /\ ~health_status[active_provider]
      /\ count_consecutive_failures(TickHistory, active_provider)
           < consecutive_failures_threshold
      /\ ~(/\ active_provider \in DOMAIN performance_data
           /\ detect_performance_degradation(active_provider, performance_data))
      /\ LoopTick)
     => active_provider' = active_provider]_vars

\* provider p has a healthy sample in the health map
HealthyNow(p) == p \in DOMAIN health_status /\ health_status[p]

\* C34: every provider whose current sample is healthy scores at least 35,
\* hence more than 0, whatever its history, performance, cost and cooldown
\* state; and select_best_provider never returns an unhealthy provider when
\* some provider that is not excluded is currently healthy.
C34_HealthyBeatsUnhealthy ==
  [][/\ \A p \in Providers :
          (last'.op = "score" /\ HealthyNow(p) /\ ScoreCall(p))
          => /\ ScoreNow(p)[1] >= 35 * 1000 * ScoreNow(p)[2]
             /\ ScoreGtInt(ScoreNow(p), 0)
     /\ \A ex \in {active_provider, NoProvider} :
          (/\ last'.op = "select"
           /\ \E q \in Providers \ {ex} : HealthyNow(q)
           /\ SelectCall(ex))
          => /\ last'.ret \in Providers \ {ex}
             /\ HealthyNow(last'.ret)]_vars

\* select_best_provider has returned a healthy provider that carries the
\* cooldown penalty and has a history of failures only, and scores less than
\* 50, while a provider before it in the configuration is unhealthy
C34_Witness ==
  /\ last.op = "select"
  /\ last.ret \in Providers
  /\ HealthyNow(last.ret)
  /\ last_failover_time[last.ret] # NoTime
  /\ health_history[last.ret] # << >>
  /\ HealthyCount(health_history[last.ret]) = 0
  /\ ~ScoreGtInt(ScoreNow(last.ret), 50)
  /\ \E i, j \in 1..Len(ProviderOrder) :
       /\ i < j
       /\ ProviderOrder[j] = last.ret
       /\ ~HealthyNow(ProviderOrder[i])
       /\ ProviderOrder[i] # active_provider

\* C35: under any interleaving of failover ticks and manual failovers the
\* event log stays consistent with the active provider: whenever no call is
\* in progress, each event's from_provider equals the to_provider of the
\* event before it, and the newest event's to_provider is the active
\* provider.
C35_LogFollowsActiveProvider ==
  (tpc = "idle" /\ mpc = "idle")
  => /\ \A i \in 2..Len(events) :
          events[i].from_provider = events[i - 1].to_provider
     /\ events # << >> => events[Len(events)].to_provider = active_provider

\* C36: a tick on which none of the three triggers matches for the active
\* provider returns false and leaves the active provider, every failover
\* time, the performance map and the event log unchanged; its only effect is
\* that the current sample of each reported provider is appended to that
\* provider's history, the histories of the other providers staying as they
\* were.
C36_QuietTickOnlyAppends ==
  [][(/\ last'.op = "tick"
      /\ health_status # << >>
      /\ ~TickTriggers.needs_failover
      /\ LoopTick)
     => /\ last'.ret = "False"
        /\ UNCHANGED <<active_provider, last_failover_time, performance_data,
                       events, health_status>>
        /\ \A p \in Providers :
             health_history'[p] =
               IF p \in DOMAIN health_status
               THEN LastN(Append(health_history[p], health_status[p]), HistoryCap)
               ELSE health_history[p]]_vars

\* a tick has returned false for an active provider whose sample is
\* unhealthy and now ends its history, with a provider that reported nothing
\* and a failover less than a minute ago
C36_Witness ==
  /\ last.op = "tick"
  /\ last.ret = "False"
  /\ health_status # << >>
  /\ active_provider \in DOMAIN health_status
  /\ ~health_status[active_provider]
  /\ Len(health_history[active_provider]) >= 2
  /\ ~health_history[active_provider][Len(health_history[active_provider])]
  /\ \E p \in Providers : p \notin DOMAIN health_status
  /\ last_failover_time[active_provider] # NoTime
  /\ events = << >>

\* C37: when the current health map is unavailable (empty),
\* check_and_failover returns false and changes nothing: the health
\* histories, the active provider, the failover times and the event log are
\* unchanged, even if the active provider's performance snapshot is degraded.
C37_NoHealthMapNoChange ==
  [][(/\ last'.op = "tick"
      /\ health_status = << >>
      /\ LoopTick)
     => /\ last'.ret = "False"
        /\ UNCHANGED <<health_history, active_provider, last_failover_time,
                       events>>]_vars

\* a tick has returned false with an empty health map while the active
\* provider's snapshot was degraded and its history held failures only
C37_Witness ==
  /\ last.op = "tick"
  /\ last.ret = "False"
  /\ health_status = << >>
  /\ active_provider \in DOMAIN current_performance
  /\ detect_performance_degradation(active_provider, current_performance)
  /\ Len(health_history[active_provider]) = MaxLen
  /\ HealthyCount(health_history[active_provider]) = 0

\* C38: stabilisation: when the health samples and the performance
\* snapshots of all providers stay constant and the failover tick is
\* scheduled fairly, only finitely many failovers occur: eventually the
\* active provider is some provider p and stays p for ever.
C38_Stabilises ==
  \E p \in Providers : <>[](active_provider = p)

RECURSIVE Successor(_, _)
\* the provider k steps after p in the failover order
Successor(p, k) == IF k = 0 THEN p ELSE NextInOrder(Successor(p, k - 1))

\* the providers of the failover order that follow p, each with a healthy
\* sample, as step counts from p
HealthySteps(p) ==
  {k \in 1..Cardinality(DOMAIN FAILOVER_ORDER) : HealthyNow(Successor(p, k))}

\* C39: the basic FailoverManager, on a tick where the active provider's
\* current sample is unhealthy, switches to the first currently healthy
\* provider found by following FAILOVER_ORDER from the active provider's
\* successor, within |FAILOVER_ORDER| steps; the target is never the failed
\* provider nor an unhealthy one and the switch is logged; when no provider
\* is healthy the active provider and the event log are unchanged and
\* check_and_failover does not report a failover.
C39_BasicFollowsOrder ==
  [][\A p \in Providers :
       (/\ last'.op = "basic_tick"
        /\ active_provider = p
        /\ p \in DOMAIN health_status
        /\ ~health_status[p]
        /\ BasicTick)
       => IF HealthySteps(p) # {}
          THEN /\ \E k \in HealthySteps(p) :
                    /\ \A j \in HealthySteps(p) : k <= j
                    /\ active_provider' = Successor(p, k)
               /\ active_provider' # p
               /\ HealthyNow(active_provider')
               /\ Len(events') = Len(events) + 1
               /\ events'[Len(events')].from_provider = p
               /\ events'[Len(events')].to_provider = active_provider'
               /\ last'.ret = "True"
          ELSE /\ active_provider' = p
               /\ events' = events
               /\ last'.ret = "False"]_vars

====
